---- MODULE Spec2Model ----
(***************************************************************************)
(* A model of sapo's container deployment lifecycle: the container manager *)
(* (sapo/cli/install_mode/docker/container.py), volume provisioning        *)
(* (docker/volume.py), the install routine (docker/__init__.py) and the    *)
(* container-by-container start (install_mode/docker.py).                  *)
(*                                                                         *)
(* The container runtime is the environment: every external command is a   *)
(* nondeterministic choice among the outcomes the code distinguishes.      *)
(***************************************************************************)
EXTENDS Integers, Sequences, FiniteSets, TLC

VARIABLES
    \* ---- DockerContainerManager.start_containers
    pc,               \* position in start_containers
    docker_ok,        \* the answer of docker --version: "unasked", "yes", "no"
    caller,           \* who called start_containers: "top" or "install_docker"
    output_lines,     \* the compose-up output captured so far
    return_code,      \* compose-up's exit code, -1 while it runs
    attempts,         \* the health loop's counter
    polls,            \* health-loop iterations executed (history)
    app,              \* the application container as the runtime reported it at the last poll
    db,               \* the database container at the same moment
    result,           \* what start_containers returned: "none", "true", "false", "raised"
    reason,           \* which return statement was taken
    diag,             \* the captured lines printed as the failure diagnostic
    compose_invoked,  \* docker compose up was spawned
    port_queried,     \* docker compose port was run
    \* ---- DockerContainerManager.get_container_status
    gs_in,            \* what the two inspect calls give
    gs_out,           \* the returned ContainerStatus, "none" before the call
    \* ---- DockerContainerManager.clean_environment
    rt,               \* the runtime: which of the known containers / network exist
    compose_file,     \* docker-compose.yml exists in compose_dir
    clean_in,         \* outcomes of the external commands of the last call
    clean_before,     \* the runtime and the compose file as the last call found them
    clean_results,    \* what the calls made so far returned, in order
    \* ---- install_docker (docker/__init__.py) and VolumeManager
    ipc,              \* position in install_docker
    non_interactive,  \* the argument
    start,            \* the argument
    named_requested,  \* use_named_volumes as the caller passed it
    use_named_volumes,\* the local, reset at line 234
    volumes,          \* create_volume_set's dict: the types created, in insertion order
    cleanup_i,        \* index of the cleanup loop of create_volume_set
    set_raised,       \* create_volume_set raised its RuntimeError
    rt_volumes,       \* the runtime: the volumes that exist
    created_log,      \* every volume this install created, in order (history)
    all_success,      \* generate_all_files reported every file written
    exit_code,        \* "none" while running, then the process exit code
    \* ---- _setup_docker_containers (install_mode/docker.py)
    spc,              \* position in _setup_docker_containers
    c_app,            \* the artifactory container: "absent", "old", "created", "running"
    c_pg,             \* the artifactory-postgres container, likewise
    c_net,            \* artifactory_network exists
    pg_started,       \* pg_container.start() returned
    pg_failed,        \* getting or starting the database container raised
    slept,            \* time.sleep(5) returned
    app_start_called, \* container.start() was called
    status,           \* the returned OperationStatus, "none" before
    \* ---- VolumeManager backup_volume / restore_volume / migrate_data (docker/volume.py)
    vpc,              \* position in the running VolumeManager call
    vop,              \* the entry point the caller invoked
    phase,            \* "first" call of the run, or the "second" (a restore after a backup)
    v_args,           \* the arguments of the running call
    docker_available, \* docker --version succeeds on this host
    vol_data,         \* the runtime: the volumes that exist and what each holds
    host_files,       \* the host: archives and metadata files
    host_dirs,        \* the host: the directories that exist
    proc_log,         \* external processes spawned by the running call, in order
    backup_file,      \* the path backup_volume returned, "none" if it returned none
    b_status,         \* the OperationStatus backup_volume returned
    volume_name,      \* restore_volume's local of that name
    is_compressed,    \* restore_volume's local of that name
    tar_command,      \* the extraction command restore_volume ran, "none" before
    r_status,         \* the OperationStatus restore_volume returned
    r_name,           \* the volume name restore_volume returned
    v_result,         \* what the entry point returned to its caller
    snap,             \* what the source volume held when it was archived (history)
    unlink_attempted, \* migrate_data called backup_file.unlink()
    v_before,         \* the volumes, files and directories as the running call found them
    \* ---- the sapo command line (cli/cli.py)
    cpc,              \* position in the command
    command,          \* the command line: its name and options
    handler,          \* the function the command name is bound to
    confirm_asked,    \* typer.confirm was called
    confirm_answer,   \* what the operator answered, "none" if not asked
    returned,         \* what the routine the command called gave back
    cli_exit,         \* the exit code of the process, "none" while it runs
    \* ---- DockerConfig and DockerFileManager (docker/config.py, docker/files.py)
    passwords,        \* per configuration, its _passwords dict
    joinkey,          \* per configuration, its joinkey field
    password_cache,   \* the module-level _password_cache of docker/__init__.py
    supplied,         \* per configuration, the joinkey passed to the constructor (history)
    first_password,   \* per (configuration, key), the first value returned (history)
    first_joinkey,    \* per configuration, the first value generate_joinkey returned (history)
    last_call,        \* the last call made and what it returned
    fpc,              \* position in generate_all_files
    rendered,         \* per file type, the secrets passed to its template
    \* ---- VolumeManager.create_volume / create_volume_set (docker/volume.py)
    now,              \* the wall clock, in ticks of half a second
    docker_volumes,   \* the runtime: per volume name, its driver, options and labels
    cv_calls,         \* the creations made so far: who asked, for what, the name returned
    cv_last,          \* the last create_volume call: its arguments, command and outcome
    \* ---- safe_write_file (install_mode/common/file_utils.py)
    path_kind,        \* what the path is on disk: "absent", "file" or "dir"
    path_content,     \* the text of the file, or the entries of the directory
    parent_ok,        \* the parent directory exists or can be made
    sw_call,          \* the last call: its arguments, what it found and what it returned
    sw_calls,         \* number of calls made
    \* ---- install_artifactory (cli/artifactory.py)
    ia_pc,            \* position in install_artifactory
    keep_archive,     \* the argument
    verify_checksum,  \* the argument verify_checksum_enabled
    download_path,    \* the downloaded archive on disk: "absent" or "present"
    extract_path,     \* the directory extracted into: "absent", "partial" or "full"
    temp_files,       \* the paths registered with register_temp_file
    extract_result,   \* the tuple extract_archive returned, <<>> before
    completed,        \* "Installation completed successfully!" was printed
    unlinked,         \* install_artifactory removed the archive
    ia_exit           \* how the call ended: "none", "returned", "exit_0", "exit_1", "raised"

startVars == <<pc, docker_ok, caller, output_lines, return_code, attempts, polls, app, db,
               result, reason, diag, compose_invoked, port_queried>>
statusVars == <<gs_in, gs_out>>
cleanVars == <<rt, compose_file, clean_in, clean_before, clean_results>>
installVars == <<ipc, non_interactive, start, named_requested, use_named_volumes,
                 volumes, cleanup_i, set_raised, rt_volumes, created_log,
                 all_success, exit_code>>
setupVars == <<spc, c_app, c_pg, c_net, pg_started, pg_failed, slept,
               app_start_called, status>>
volVars == <<vpc, vop, phase, v_args, docker_available, vol_data, host_files, host_dirs,
             proc_log, backup_file, b_status, volume_name, is_compressed, tar_command,
             r_status, r_name, v_result, snap, unlink_attempted, v_before>>
cliVars == <<cpc, command, handler, confirm_asked, confirm_answer, returned, cli_exit>>
cfgVars == <<passwords, joinkey, password_cache, supplied, first_password, first_joinkey,
             last_call, fpc, rendered>>
cvVars == <<now, docker_volumes, cv_calls, cv_last>>
swVars == <<path_kind, path_content, parent_ok, sw_call, sw_calls>>
iaVars == <<ia_pc, keep_archive, verify_checksum, download_path, extract_path, temp_files,
            extract_result, completed, unlinked, ia_exit>>
vars == <<startVars, statusVars, cleanVars, installVars, setupVars, volVars, cliVars,
          cfgVars, cvVars, swVars, iaVars>>

(***************************************************************************)
(* Bounds of the model and constants of the program.                       *)
(***************************************************************************)
\* the longest compose-up output the model lets the process write
MaxLines == 12
\* the most lines of one output that report an error
MaxErrorLines == 1
\* container.py:197
max_attempts == 60
\* container.py:175, output_lines[-10:]
TailLines == 10
\* calls of clean_environment in one run of the model
MaxCleanCalls == 2

(***************************************************************************)
(* The container runtime's view of one container.                          *)
(***************************************************************************)
\* exit codes of docker compose up
ExitCodes == {0, 1}

DockerStatus == {"absent", "created", "exited", "running"}
DockerHealth == {"none", "starting", "healthy", "unhealthy"}

\* only a running container reports a health state
ContainerStates ==
    {c \in [status : DockerStatus, health : DockerHealth] :
        c.status # "running" => c.health = "none"}

NoContainer == [status |-> "absent", health |-> "none"]

\* docker inspect --format {{.State.Status}} <name>
InspectStatus(c) ==
    IF c.status = "absent"
    THEN [returncode |-> 1, stdout |-> ""]
    ELSE [returncode |-> 0, stdout |-> c.status]

\* docker inspect --format {{.State.Health.Status}} <name>: the template fails
\* on a container that has no health check
InspectHealth(c) ==
    IF c.status = "absent" \/ c.health = "none"
    THEN [returncode |-> 1, stdout |-> ""]
    ELSE [returncode |-> 0, stdout |-> c.health]

(***************************************************************************)
(* ContainerStatus and get_container_status (container.py:15-21, 294-339). *)
(* The enum has four members; HEALTHY is not one of them.                  *)
(***************************************************************************)
ContainerStatus == {"RUNNING", "STOPPED", "UNHEALTHY", "UNKNOWN"}

\* the inputs of one call: the two inspect results and whether running either
\* command raised (docker missing, OS error)
StatusInputs ==
    [raises : {"no", "status", "health"},
     returncode : {0, 1},
     stdout : {"running", "exited", "created", "paused", ""},
     h_returncode : {0, 1},
     h_stdout : {"healthy", "unhealthy", "starting", ""}]

get_container_status(i) ==
    IF i.raises = "status" THEN "UNKNOWN"
    ELSE IF i.returncode # 0 THEN "UNKNOWN"
    ELSE IF i.stdout = "running"
         THEN IF i.raises = "health" THEN "UNKNOWN"
              ELSE IF i.h_returncode = 0 /\ i.h_stdout = "unhealthy"
                   THEN "UNHEALTHY"
                   ELSE "RUNNING"
    ELSE IF i.stdout = "exited" THEN "STOPPED"
    ELSE "UNKNOWN"

\* the status get_container_status gives for a container in runtime state c
StatusOf(c) ==
    get_container_status(
        [raises |-> "no",
         returncode |-> InspectStatus(c).returncode,
         stdout |-> InspectStatus(c).stdout,
         h_returncode |-> InspectHealth(c).returncode,
         h_stdout |-> InspectHealth(c).stdout])

(***************************************************************************)
(* start_containers (container.py:117-292).                                *)
(***************************************************************************)
\* the stripped text of a captured line; lines carry their number so that
\* two lines of one output are never equal
LineTexts == {"info", "error"}

ErrorLines(lines) == {k \in 1..Len(lines) : lines[k].text = "error"}

\* a slip: output_lines[:10], the first lines instead of the last
LastLines_FirstLines(lines) ==
    IF Len(lines) <= TailLines THEN lines ELSE SubSeq(lines, 1, TailLines)

\* output_lines[-10:]
LastLines(lines) ==
    IF Len(lines) <= TailLines
    THEN lines
    ELSE SubSeq(lines, Len(lines) - TailLines + 1, Len(lines))

\* the test of line 223 on the runtime's answers for the application container:
\* compose ps -q printed an id and the health inspect printed "healthy"
ReportsHealthy(c) ==
    c.status # "absent" /\ InspectHealth(c).stdout = "healthy"

\* every return of start_containers: set the result, go back to the caller
Return(value, why) ==
    /\ result' = value
    /\ reason' = why
    /\ pc' = "done"

\* a slip: the answer of is_docker_available is not acted on
Preflight_Unchecked ==
    /\ pc = "preflight"
    /\ \E available \in BOOLEAN :
          /\ docker_ok' = (IF available THEN "yes" ELSE "no")
          /\ pc' = "compose_up"
          /\ UNCHANGED <<result, reason>>
    /\ UNCHANGED <<caller, output_lines, return_code, attempts, polls, app, db,
                   diag, compose_invoked, port_queried>>
    /\ UNCHANGED <<statusVars, cleanVars, installVars, setupVars, volVars, cliVars, cfgVars>>
    /\ UNCHANGED <<cvVars, swVars, iaVars>>

\* lines 126-127: is_docker_available (lines 31-46) runs docker --version
Preflight ==
    /\ pc = "preflight"
    /\ \E available \in BOOLEAN :
          /\ docker_ok' = (IF available THEN "yes" ELSE "no")
          /\ IF ~available
             THEN Return("false", "docker_unavailable")
             ELSE /\ pc' = "compose_up"
                  /\ UNCHANGED <<result, reason>>
    /\ UNCHANGED <<caller, output_lines, return_code, attempts, polls, app, db,
                   diag, compose_invoked, port_queried>>
    /\ UNCHANGED <<statusVars, cleanVars, installVars, setupVars, volVars, cliVars, cfgVars>>
    /\ UNCHANGED <<cvVars, swVars, iaVars>>

\* lines 135-147: spawn docker compose up -d. A SubprocessError is caught at
\* line 290; an OSError (compose_dir or docker gone) is not caught.
ComposeUp ==
    /\ pc = "compose_up"
    /\ compose_invoked' = TRUE
    /\ \E popen \in {"ok", "SubprocessError", "OSError"} :
          CASE popen = "ok" ->
                 /\ pc' = "readline"
                 /\ output_lines' = <<>>
                 /\ UNCHANGED <<result, reason>>
            [] popen = "SubprocessError" ->
                 /\ Return("false", "popen_error")
                 /\ UNCHANGED output_lines
            [] popen = "OSError" ->
                 /\ Return("raised", "popen_oserror")
                 /\ UNCHANGED output_lines
    /\ UNCHANGED <<caller, return_code, attempts, polls, app, db, diag, port_queried>>
    /\ UNCHANGED docker_ok
    /\ UNCHANGED <<statusVars, cleanVars, installVars, setupVars, volVars, cliVars, cfgVars>>
    /\ UNCHANGED <<cvVars, swVars, iaVars>>

\* lines 150-153: readline returned a line; it is stripped and captured
ReadLine ==
    /\ pc = "readline"
    /\ Len(output_lines) < MaxLines
    /\ \E text \in LineTexts :
          /\ text = "error" => Cardinality(ErrorLines(output_lines)) < MaxErrorLines
          /\ output_lines' =
                Append(output_lines, [no |-> Len(output_lines) + 1, text |-> text])
    /\ UNCHANGED <<pc, caller, return_code, attempts, polls, app, db, result,
                   reason, diag, compose_invoked, port_queried>>
    /\ UNCHANGED docker_ok
    /\ UNCHANGED <<statusVars, cleanVars, installVars, setupVars, volVars, cliVars, cfgVars>>
    /\ UNCHANGED <<cvVars, swVars, iaVars>>

\* lines 161-198: end of output and the process has exited. A non-zero exit
\* prints the last captured lines and returns False; otherwise the health
\* loop starts with attempts = 0. output_lines is not read after line 183.
ProcessExit ==
    /\ pc = "readline"
    /\ \E rc \in ExitCodes :
          /\ return_code' = rc
          /\ IF rc # 0
             THEN /\ diag' = (IF output_lines # <<>> THEN LastLines(output_lines) ELSE <<>>)
                  /\ Return("false", "compose_failed")
                  /\ UNCHANGED <<output_lines, attempts>>
             ELSE /\ pc' = "poll"
                  /\ attempts' = 0
                  /\ output_lines' = <<>>
                  /\ UNCHANGED <<result, reason, diag>>
    /\ UNCHANGED <<caller, polls, app, db, compose_invoked, port_queried>>
    /\ UNCHANGED docker_ok
    /\ UNCHANGED <<statusVars, cleanVars, installVars, setupVars, volVars, cliVars, cfgVars>>
    /\ UNCHANGED <<cvVars, swVars, iaVars>>

\* lines 199-255: one iteration of the health loop. The runtime's state of
\* both containers at that moment is the environment's choice; the code asks
\* about the application container only.
Poll ==
    /\ pc = "poll"
    /\ attempts < max_attempts
    /\ polls' = polls + 1
    /\ \E a \in ContainerStates, d \in ContainerStates, ps \in {"ok", "CalledProcessError"} :
          /\ app' = a
          /\ db' = d
          /\ CASE ps = "CalledProcessError" ->
                    /\ Return("false", "poll_error")
                    /\ UNCHANGED attempts
               [] ps = "ok" /\ ReportsHealthy(a) ->
                    /\ pc' = "port"
                    /\ UNCHANGED <<attempts, result, reason>>
               [] OTHER ->
                    /\ attempts' = attempts + 1
                    /\ UNCHANGED <<pc, result, reason>>
    /\ UNCHANGED <<caller, output_lines, return_code, diag, compose_invoked, port_queried>>
    /\ UNCHANGED docker_ok
    /\ UNCHANGED <<statusVars, cleanVars, installVars, setupVars, volVars, cliVars, cfgVars>>
    /\ UNCHANGED <<cvVars, swVars, iaVars>>

\* a slip: the return False of line 264 is missing, the code falls through
\* to the port query
Timeout_FallsThrough ==
    /\ pc = "poll"
    /\ attempts >= max_attempts
    /\ pc' = "port"
    /\ UNCHANGED <<docker_ok, caller, output_lines, return_code, attempts, polls, app,
                   db, result, reason, diag, compose_invoked, port_queried>>
    /\ UNCHANGED <<statusVars, cleanVars, installVars, setupVars, volVars, cliVars, cfgVars>>
    /\ UNCHANGED <<cvVars, swVars, iaVars>>

\* lines 257-264: the loop ended with the attempts used up
Timeout ==
    /\ pc = "poll"
    /\ attempts >= max_attempts
    /\ Return("false", "timeout")
    /\ UNCHANGED <<caller, output_lines, return_code, attempts, polls, app, db,
                   diag, compose_invoked, port_queried>>
    /\ UNCHANGED docker_ok
    /\ UNCHANGED <<statusVars, cleanVars, installVars, setupVars, volVars, cliVars, cfgVars>>
    /\ UNCHANGED <<cvVars, swVars, iaVars>>

\* lines 266-288: docker compose port; its failure changes the message only
PortResolution ==
    /\ pc = "port"
    /\ port_queried' = TRUE
    /\ Return("true", "healthy")
    /\ UNCHANGED <<caller, output_lines, return_code, attempts, polls, app, db,
                   diag, compose_invoked>>
    /\ UNCHANGED docker_ok
    /\ UNCHANGED <<statusVars, cleanVars, installVars, setupVars, volVars, cliVars, cfgVars>>
    /\ UNCHANGED <<cvVars, swVars, iaVars>>

start_containers ==
    \/ Preflight
    \/ ComposeUp
    \/ ReadLine
    \/ ProcessExit
    \/ Poll
    \/ Timeout
    \/ PortResolution

\* before any call of clean_environment
NoCleanCall == [down |-> "skipped", rm |-> <<"skipped", "skipped", "skipped">>]

InitStartVars ==
    /\ docker_ok = "unasked"
    /\ caller = "top"
    /\ output_lines = <<>>
    /\ return_code = -1
    /\ attempts = 0
    /\ polls = 0
    /\ app = NoContainer
    /\ db = NoContainer
    /\ result = "none"
    /\ reason = "none"
    /\ diag = <<>>
    /\ compose_invoked = FALSE
    /\ port_queried = FALSE

InitStatusVars ==
    /\ gs_in = [raises |-> "no", returncode |-> 0, stdout |-> "", h_returncode |-> 0, h_stdout |-> ""]
    /\ gs_out = "none"

InitCleanVars ==
    /\ rt = {}
    /\ compose_file = FALSE
    /\ clean_in = NoCleanCall
    /\ clean_before = [rt |-> {}, compose_file |-> FALSE]
    /\ clean_results = <<>>

InitInstallVars ==
    /\ ipc = "idle"
    /\ non_interactive = FALSE
    /\ start = FALSE
    /\ named_requested = FALSE
    /\ use_named_volumes = FALSE
    /\ volumes = <<>>
    /\ cleanup_i = 0
    /\ set_raised = FALSE
    /\ rt_volumes = {}
    /\ created_log = <<>>
    /\ all_success = FALSE
    /\ exit_code = "none"

InitSetupVars ==
    /\ spc = "idle"
    /\ c_app = "absent"
    /\ c_pg = "absent"
    /\ c_net = FALSE
    /\ pg_started = FALSE
    /\ pg_failed = FALSE
    /\ slept = FALSE
    /\ app_start_called = FALSE
    /\ status = "none"

\* no VolumeManager call is running
NoVolumes == [n \in {} |-> {}]
\* Path values: a directory and a file name; None is NoPath
NoPath == [dir |-> "none", name |-> <<>>]
\* a str argument that is None or empty is <<>>: the code tests both with not
NoArgs ==
    [op |-> "none", volume |-> <<>>, compress |-> FALSE, dir |-> "none",
     file |-> NoPath, volume_name |-> <<>>, volume_type |-> "none", target |-> <<>>]

InitVolVars ==
    /\ vpc = "idle"
    /\ vop = "none"
    /\ phase = "first"
    /\ v_args = NoArgs
    /\ docker_available = TRUE
    /\ vol_data = NoVolumes
    /\ host_files = {}
    /\ host_dirs = {}
    /\ proc_log = <<>>
    /\ backup_file = NoPath
    /\ b_status = "none"
    /\ volume_name = <<>>
    /\ is_compressed = FALSE
    /\ tar_command = "none"
    /\ r_status = "none"
    /\ r_name = <<>>
    /\ v_result = "none"
    /\ snap = {}
    /\ unlink_attempted = FALSE
    /\ v_before = [vol_data |-> NoVolumes, host_files |-> {}, host_dirs |-> {}]

\* a command line of sapo volume: the command's name and its options
NoCommand ==
    [name |-> "none", force |-> FALSE, volume |-> <<>>, file |-> NoPath,
     type |-> "none", compress |-> FALSE]

\* no command is running
InitCliVars ==
    /\ cpc = "idle"
    /\ command = NoCommand
    /\ handler = "none"
    /\ confirm_asked = FALSE
    /\ confirm_answer = "none"
    /\ returned = "none"
    /\ cli_exit = "none"

\* no configuration has been constructed
InitCfgVars ==
    /\ passwords = <<>>
    /\ joinkey = <<>>
    /\ password_cache = <<>>
    /\ supplied = <<>>
    /\ first_password = <<>>
    /\ first_joinkey = <<>>
    /\ last_call = [fn |-> "none"]
    /\ fpc = "idle"
    /\ rendered = <<>>

\* no volume has been created through create_volume
InitCvVars ==
    /\ now = 0
    /\ docker_volumes = [n \in {} |-> {}]
    /\ cv_calls = <<>>
    /\ cv_last = [outcome |-> "none"]

\* safe_write_file has not been called
InitSwVars ==
    /\ path_kind = "absent"
    /\ path_content = {}
    /\ parent_ok = TRUE
    /\ sw_call = [status |-> "none"]
    /\ sw_calls = 0

\* install_artifactory has not been called
InitIaVars ==
    /\ ia_pc = "idle"
    /\ keep_archive = FALSE
    /\ verify_checksum = FALSE
    /\ download_path = "absent"
    /\ extract_path = "absent"
    /\ temp_files = {}
    /\ extract_result = <<>>
    /\ completed = FALSE
    /\ unlinked = FALSE
    /\ ia_exit = "none"

\* one call of start_containers
InitStart ==
    /\ pc = "preflight"
    /\ InitStartVars
    /\ InitVolVars
    /\ InitCliVars
    /\ InitCfgVars
    /\ InitCvVars
    /\ InitSwVars
    /\ InitIaVars
    /\ InitStatusVars
    /\ InitCleanVars
    /\ InitInstallVars
    /\ InitSetupVars

SpecStart == InitStart /\ [][start_containers]_vars

\* the calls the code makes are blocking and each returns: the routine keeps
\* running until it returns
SpecStartFair == SpecStart /\ WF_vars(start_containers)

(***************************************************************************)
(* Claims about start_containers.                                          *)
(***************************************************************************)
\* the health loop has just reported success (the break of line 230), or
\* start_containers has returned True after it
PollSucceeded == pc = "port" \/ result = "true"

\* C1: the health-poll phase never reports success before at least 3 poll
\* iterations have executed, even when the containers are healthy at the
\* first check.
C1_MinimumPolls == PollSucceeded => polls >= 3

\* C2: the health-poll phase never reports success at a poll where the
\* application container's status is outside {RUNNING, HEALTHY} or the
\* database container's status is outside {RUNNING, HEALTHY, STOPPED}.
C2_SuccessCondition ==
    PollSucceeded =>
        /\ StatusOf(app) \in {"RUNNING", "HEALTHY"}
        /\ StatusOf(db) \in {"RUNNING", "HEALTHY", "STOPPED"}

\* C3: the health loop always terminates: it makes at most max_attempts (60)
\* polls, every run that enters it leaves it and returns, and once the
\* attempts are used up the routine returns false (timeout), never success.
C3_PollTerminates ==
    /\ [](polls <= 60)
    /\ [](attempts >= 60 => pc \in {"poll", "done"} /\ result # "true")
    /\ [](reason = "timeout" => result = "false" /\ attempts = 60 /\ polls = 60)
    /\ ((pc = "poll") ~> (pc = "done"))
    /\ ((pc = "poll" /\ attempts >= 60) ~> (result = "false" /\ reason = "timeout"))

\* C3 witness: the routine timed out after 60 polls
C3_Witness == pc = "done" /\ reason = "timeout" /\ polls = 60 /\ result = "false"

\* C5: when compose-up exits with a non-zero code, start_containers returns
\* false without a single health poll, and the diagnostic holds exactly the
\* last 10 captured lines (all of them if fewer), so that an error line among
\* those lines is in it.
C5_ComposeFailure ==
    return_code \notin {-1, 0} =>
        /\ pc = "done" /\ result = "false"
        /\ polls = 0 /\ attempts = 0 /\ ~port_queried
        /\ Len(diag) = (IF Len(output_lines) < 10 THEN Len(output_lines) ELSE 10)
        /\ \A k \in 1..Len(diag) :
              diag[k] = output_lines[Len(output_lines) - Len(diag) + k]
        /\ \A k \in ErrorLines(output_lines) :
              k > Len(output_lines) - 10 => \E j \in 1..Len(diag) : diag[j] = output_lines[k]

\* C5 witness: compose-up failed after more than 10 lines, one of the last
\* 10 reporting the error
C5_Witness ==
    /\ pc = "done" /\ return_code = 1
    /\ Len(output_lines) > 10
    /\ \E k \in ErrorLines(output_lines) : k > Len(output_lines) - 10
    /\ Len(diag) = 10

C29_FalseOnlyAfterTimeout ==
    (return_code = 0 /\ pc = "done") =>
        /\ result # "raised"
        /\ result = "false" => (attempts >= max_attempts /\ reason = "timeout")

\* the part of C29 that the code keeps: a poll that finds no container or a
\* container that is not healthy is counted and polling goes on
C29_FalseOnlyAfterTimeout_NotReady ==
    [][(pc = "poll" /\ polls' = polls + 1 /\ reason' # "poll_error"
            /\ ~ReportsHealthy(app')) =>
          (pc' = "poll" /\ attempts' = attempts + 1)]_vars

(***************************************************************************)
(* get_container_status, one call on any inspect results.                  *)
(***************************************************************************)
GetStatus ==
    /\ gs_out = "none"
    /\ gs_out' = get_container_status(gs_in)
    /\ UNCHANGED gs_in
    /\ UNCHANGED <<startVars, cleanVars, installVars, setupVars, volVars, cliVars, cfgVars>>
    /\ UNCHANGED <<cvVars, swVars, iaVars>>

InitStatus ==
    /\ pc = "idle"
    /\ InitStartVars
    /\ InitVolVars
    /\ InitCliVars
    /\ InitCfgVars
    /\ InitCvVars
    /\ InitSwVars
    /\ InitIaVars
    /\ gs_in \in StatusInputs
    /\ gs_out = "none"
    /\ InitCleanVars
    /\ InitInstallVars
    /\ InitSetupVars

SpecStatus == InitStatus /\ [][GetStatus]_vars

\* C10: get_container_status never raises and returns UNHEALTHY for a running
\* container whose health is unhealthy, HEALTHY for a running container whose
\* health is healthy, RUNNING for a running container without health
\* information, STOPPED for an exited container, and UNKNOWN for any other
\* status and for any failure to run or read the inspect command.
C10_StatusMapping ==
    gs_out # "none" =>
        LET inspected == gs_in.raises # "status" /\ gs_in.returncode = 0
            running == inspected /\ gs_in.stdout = "running" /\ gs_in.raises = "no"
            health == IF gs_in.h_returncode = 0 THEN gs_in.h_stdout ELSE ""
        IN  /\ gs_out # "raised"
            /\ running /\ health = "unhealthy" => gs_out = "UNHEALTHY"
            /\ running /\ health = "healthy" => gs_out = "HEALTHY"
            /\ running /\ health = "" => gs_out = "RUNNING"
            /\ inspected /\ gs_in.stdout = "exited" => gs_out = "STOPPED"
            /\ inspected /\ gs_in.stdout \notin {"running", "exited"} => gs_out = "UNKNOWN"
            /\ ~inspected => gs_out = "UNKNOWN"
            /\ inspected /\ gs_in.stdout = "running" /\ gs_in.raises = "health"
                  => gs_out = "UNKNOWN"

(***************************************************************************)
(* clean_environment (container.py:48-115).                                *)
(***************************************************************************)
ApplicationContainer == "artifactory"
DatabaseContainer == "artifactory-postgres"
Network == "artifactory_network"
KnownObjects == {ApplicationContainer, DatabaseContainer, Network}

\* the targets of the three direct removals, in the order of lines 92-108
RemovalTargets == <<ApplicationContainer, DatabaseContainer, Network>>

\* subprocess.run without check: the command ran and removed its target (or
\* found none), ran and failed, or could not be run and raised
RmOutcomes == {"removed", "failed", "raise"}
\* docker compose down: exit code 0, non-zero exit code, or raised
DownOutcomes == {"ok", "fail", "raise"}

\* the outcomes one call can meet: compose down runs only when the compose
\* file exists, and a removal runs only if no earlier one raised
CleanOutcomes(cf) ==
    {o \in [down : DownOutcomes \cup {"skipped"}, rm : [1..3 -> RmOutcomes \cup {"skipped"}]] :
        /\ (o.down = "skipped") <=> ~cf
        /\ o.rm[1] # "skipped"
        /\ \A k \in 2..3 : (o.rm[k] = "skipped") <=> (o.rm[k-1] \in {"raise", "skipped"})}

\* the runtime after the commands of one call
AfterClean(r, o) ==
    LET afterDown == IF o.down = "ok" THEN {} ELSE r
    IN  afterDown \ {RemovalTargets[k] : k \in {j \in 1..3 : o.rm[j] = "removed"}}

\* a slip: the compose teardown's failure makes the call fail
CleanResult_NeedsCompose(o) ==
    IF o.down \in {"fail", "raise"} \/ \E k \in 1..3 : o.rm[k] = "raise"
    THEN "false" ELSE "true"

\* lines 90-115: True after the third removal, False from the except clause
CleanResult(o) ==
    IF \E k \in 1..3 : o.rm[k] = "raise" THEN "false" ELSE "true"

\* one call, on the variables of the runtime and of the call's record
CleanCall ==
    /\ \E o \in CleanOutcomes(compose_file) :
          /\ clean_in' = o
          /\ clean_before' = [rt |-> rt, compose_file |-> compose_file]
          /\ rt' = AfterClean(rt, o)
          /\ clean_results' = Append(clean_results, CleanResult(o))
    /\ UNCHANGED compose_file

clean_environment ==
    /\ Len(clean_results) < MaxCleanCalls
    /\ CleanCall
    /\ UNCHANGED <<startVars, statusVars, installVars, setupVars, volVars, cliVars, cfgVars>>
    /\ UNCHANGED <<cvVars, swVars, iaVars>>

InitClean ==
    /\ pc = "idle"
    /\ InitStartVars
    /\ InitVolVars
    /\ InitCliVars
    /\ InitCfgVars
    /\ InitCvVars
    /\ InitSwVars
    /\ InitIaVars
    /\ InitStatusVars
    /\ rt \in SUBSET KnownObjects
    /\ compose_file \in BOOLEAN
    /\ clean_in = NoCleanCall
    /\ clean_before = [rt |-> rt, compose_file |-> compose_file]
    /\ clean_results = <<>>
    /\ InitInstallVars
    /\ InitSetupVars

SpecClean == InitClean /\ [][clean_environment]_vars

\* the directory and the runtime hold nothing to clean
AlreadyClean(b) == b.rt = {} /\ ~b.compose_file

\* C9: clean_environment returns true exactly when the three direct removals
\* ran without raising, whatever the compose teardown did and whether or not
\* the containers and the network existed; so a call on an already-clean
\* directory whose removals do not raise returns true and leaves it clean,
\* and so does the call after it.
C9_CleanResult ==
    clean_results # <<>> =>
        LET last == clean_results[Len(clean_results)]
            ran == \A k \in 1..3 : clean_in.rm[k] \in {"removed", "failed"}
        IN  /\ (last = "true") <=> ran
            /\ AlreadyClean(clean_before) /\ ran =>
                  last = "true" /\ rt = {} /\ ~compose_file

\* C9 witness: two calls in a row on an already-clean directory, both true
C9_Witness ==
    /\ clean_results = <<"true", "true">>
    /\ AlreadyClean(clean_before)
    /\ rt = {}

\* C9 witness of the other half: the compose teardown failed, the containers
\* existed, and the call returned true
C9_Witness_ComposeFailed ==
    /\ clean_results # <<>>
    /\ clean_in.down = "fail"
    /\ clean_before.rt = KnownObjects
    /\ clean_results[Len(clean_results)] = "true"

(***************************************************************************)
(* VolumeManager.create_volume / delete_volume / create_volume_set         *)
(* (volume.py:131-225, 246-270, 583-706) as install_docker                 *)
(* (docker/__init__.py:73-354) calls them.                                 *)
(***************************************************************************)
\* the loop order of create_volume_set, by VolumeType value
VolumeOrder == <<"data", "logs", "backup", "postgresql", "etc">>

\* the install's suffix v<version>; the extra volume of line 214 has the type
\* data and the suffix etc_v<version>
VolumeName(type) == <<type, "v">>
EtcVolumeName == <<"data", "etc_v">>

\* create_volume: created, or RuntimeError (docker --version failed), or the
\* CalledProcessError of docker volume create
CreateOutcomes == {"created", "unavailable", "failed"}
\* delete_volume: True, or False because docker --version failed or because
\* docker volume rm failed
DeleteOutcomes == {"deleted", "unavailable", "failed"}

AfterCreate(vols, name, o) == IF o = "created" THEN vols \cup {name} ELSE vols
AfterDelete(vols, name, o) == IF o = "deleted" THEN vols \ {name} ELSE vols

\* typer.Exit is click.exceptions.Exit, a RuntimeError: raised inside the try
\* block of install_docker it is caught by the except Exception of line 346,
\* which raises typer.Exit(1)
ExitInsideTry(code) == 1

Exit(code) ==
    /\ exit_code' = code
    /\ ipc' = "done"

\* lines 137-148: the confirmation prompt, then the branch on use_named_volumes
InstallConfirm ==
    /\ ipc = "confirm"
    /\ \E confirmed \in BOOLEAN :
          /\ non_interactive => confirmed
          /\ IF ~confirmed
             THEN Exit(ExitInsideTry(0))
             ELSE /\ ipc' = (IF use_named_volumes THEN "volume_set" ELSE "files")
                  /\ UNCHANGED exit_code
    /\ UNCHANGED <<non_interactive, start, named_requested, use_named_volumes, volumes,
                   cleanup_i, set_raised, rt_volumes, created_log, all_success>>
    /\ UNCHANGED <<startVars, statusVars, cleanVars, setupVars, volVars, cliVars, cfgVars>>
    /\ UNCHANGED <<cvVars, swVars, iaVars>>

\* volume.py:650-690, one iteration of the loop of create_volume_set; a
\* failure enters the cleanup loop of lines 692-702
CreateSetVolume ==
    /\ ipc = "volume_set"
    /\ Len(volumes) < Len(VolumeOrder)
    /\ LET type == VolumeOrder[Len(volumes) + 1] IN
       \E o \in CreateOutcomes :
          /\ rt_volumes' = AfterCreate(rt_volumes, VolumeName(type), o)
          /\ IF o = "created"
             THEN /\ volumes' = Append(volumes, type)
                  /\ created_log' = Append(created_log, VolumeName(type))
                  /\ ipc' = (IF Len(volumes) + 1 = Len(VolumeOrder)
                             THEN "etc_volume" ELSE "volume_set")
                  /\ UNCHANGED cleanup_i
             ELSE /\ ipc' = "set_cleanup"
                  /\ cleanup_i' = 1
                  /\ UNCHANGED <<volumes, created_log>>
    /\ UNCHANGED <<non_interactive, start, named_requested, use_named_volumes,
                   set_raised, all_success, exit_code>>
    /\ UNCHANGED <<startVars, statusVars, cleanVars, setupVars, volVars, cliVars, cfgVars>>
    /\ UNCHANGED <<cvVars, swVars, iaVars>>

\* volume.py:698-702: delete_volume(created_name, force=True), its result
\* not looked at
CleanupVolume ==
    /\ ipc = "set_cleanup"
    /\ cleanup_i <= Len(volumes)
    /\ \E o \in DeleteOutcomes :
          rt_volumes' = AfterDelete(rt_volumes, VolumeName(volumes[cleanup_i]), o)
    /\ cleanup_i' = cleanup_i + 1
    /\ UNCHANGED <<ipc, non_interactive, start, named_requested, use_named_volumes,
                   volumes, set_raised, created_log, all_success, exit_code>>
    /\ UNCHANGED <<startVars, statusVars, cleanVars, setupVars, volVars, cliVars, cfgVars>>
    /\ UNCHANGED <<cvVars, swVars, iaVars>>

\* volume.py:704: the RuntimeError leaves create_volume_set and is caught at
\* line 227 of install_docker
SetRaise ==
    /\ ipc = "set_cleanup"
    /\ cleanup_i > Len(volumes)
    /\ set_raised' = TRUE
    /\ ipc' = "volume_error"
    /\ UNCHANGED <<non_interactive, start, named_requested, use_named_volumes, volumes,
                   cleanup_i, rt_volumes, created_log, all_success, exit_code>>
    /\ UNCHANGED <<startVars, statusVars, cleanVars, setupVars, volVars, cliVars, cfgVars>>
    /\ UNCHANGED <<cvVars, swVars, iaVars>>

\* lines 213-225: the extra volume; its failure is caught at line 227 too
CreateEtcVolume ==
    /\ ipc = "etc_volume"
    /\ \E o \in CreateOutcomes :
          /\ rt_volumes' = AfterCreate(rt_volumes, EtcVolumeName, o)
          /\ IF o = "created"
             THEN /\ created_log' = Append(created_log, EtcVolumeName)
                  /\ ipc' = "files"
             ELSE /\ ipc' = "volume_error"
                  /\ UNCHANGED created_log
    /\ UNCHANGED <<non_interactive, start, named_requested, use_named_volumes, volumes,
                   cleanup_i, set_raised, all_success, exit_code>>
    /\ UNCHANGED <<startVars, statusVars, cleanVars, setupVars, volVars, cliVars, cfgVars>>
    /\ UNCHANGED <<cvVars, swVars, iaVars>>

\* a slip: line 234, use_named_volumes = False, is missing
VolumeError_KeepsNamed ==
    /\ ipc = "volume_error"
    /\ \E continue \in BOOLEAN :
          /\ non_interactive => ~continue
          /\ IF continue
             THEN /\ ipc' = "files"
                  /\ UNCHANGED exit_code
             ELSE Exit(ExitInsideTry(1))
    /\ UNCHANGED <<non_interactive, start, named_requested, use_named_volumes, volumes,
                   cleanup_i, set_raised, rt_volumes, created_log, all_success>>
    /\ UNCHANGED <<startVars, statusVars, cleanVars, setupVars, volVars, cliVars, cfgVars>>
    /\ UNCHANGED <<cvVars, swVars, iaVars>>

\* lines 227-236: interactive, the operator may continue without named
\* volumes; otherwise typer.Exit(1)
VolumeError ==
    /\ ipc = "volume_error"
    /\ \E continue \in BOOLEAN :
          /\ non_interactive => ~continue
          /\ IF continue
             THEN /\ use_named_volumes' = FALSE
                  /\ ipc' = "files"
                  /\ UNCHANGED exit_code
             ELSE /\ Exit(ExitInsideTry(1))
                  /\ UNCHANGED use_named_volumes
    /\ UNCHANGED <<non_interactive, start, named_requested, volumes,
                   cleanup_i, set_raised, rt_volumes, created_log, all_success>>
    /\ UNCHANGED <<startVars, statusVars, cleanVars, setupVars, volVars, cliVars, cfgVars>>
    /\ UNCHANGED <<cvVars, swVars, iaVars>>

\* generate_all_files: an exception (a directory that cannot be made, a
\* template that cannot be rendered), or a result per file
FileOutcomes ==
    {[raises |-> TRUE, compose |-> FALSE, others |-> FALSE]}
        \cup [raises : {FALSE}, compose : BOOLEAN, others : BOOLEAN]

\* lines 238-272 and 335-344: generate_all_files writes the environment
\* file, the compose manifest and system.yaml, or raises; without start the
\* routine then returns
GenerateFiles ==
    /\ ipc = "files"
    /\ \E written \in FileOutcomes :
          IF written.raises
          THEN /\ Exit(1)
               /\ UNCHANGED <<all_success, compose_file>>
          ELSE /\ all_success' = (written.compose /\ written.others)
               /\ compose_file' = (compose_file \/ written.compose)
               /\ IF start
                  THEN /\ ipc' = "clean"
                       /\ UNCHANGED exit_code
                  ELSE Exit(0)
    /\ UNCHANGED <<non_interactive, start, named_requested, use_named_volumes, volumes,
                   cleanup_i, set_raised, rt_volumes, created_log>>
    /\ UNCHANGED <<rt, clean_in, clean_before, clean_results>>
    /\ UNCHANGED <<startVars, statusVars, setupVars, volVars, cliVars, cfgVars>>
    /\ UNCHANGED <<cvVars, swVars, iaVars>>

\* lines 278-288: clean_environment, always when non-interactive, else if
\* the operator agrees
CleanBeforeStart ==
    /\ ipc = "clean"
    /\ \E should_cleanup \in BOOLEAN :
          /\ non_interactive => should_cleanup
          /\ IF should_cleanup THEN CleanCall ELSE UNCHANGED cleanVars
    /\ ipc' = "start"
    /\ UNCHANGED <<non_interactive, start, named_requested, use_named_volumes, volumes,
                   cleanup_i, set_raised, rt_volumes, created_log, all_success, exit_code>>
    /\ UNCHANGED <<startVars, statusVars, setupVars, volVars, cliVars, cfgVars>>
    /\ UNCHANGED <<cvVars, swVars, iaVars>>

\* what a call of start_containers leaves behind: its result and whether
\* compose-up was spawned
StartOutcomes ==
    {[result |-> "false", compose_invoked |-> FALSE],
     [result |-> "false", compose_invoked |-> TRUE],
     [result |-> "true", compose_invoked |-> TRUE],
     [result |-> "raised", compose_invoked |-> TRUE]}

\* every return of start_containers is one of StartOutcomes (checked under
\* SpecStart)
StartOutcomesSound ==
    pc = "done" =>
        [result |-> result, compose_invoked |-> compose_invoked] \in StartOutcomes

\* line 290: the call of start_containers, run to its return
StartContainers ==
    /\ ipc = "start"
    /\ \E s \in StartOutcomes :
          /\ result' = s.result
          /\ compose_invoked' = s.compose_invoked
          /\ docker_ok' = (IF s.compose_invoked THEN "yes" ELSE "no")
    /\ caller' = "install_docker"
    /\ pc' = "done"
    /\ ipc' = "started"
    /\ UNCHANGED <<output_lines, return_code, attempts, polls, app, db, reason, diag,
                   port_queried>>
    /\ UNCHANGED <<non_interactive, start, named_requested, use_named_volumes, volumes,
                   cleanup_i, set_raised, rt_volumes, created_log, all_success, exit_code>>
    /\ UNCHANGED <<statusVars, cleanVars, setupVars, volVars, cliVars, cfgVars>>
    /\ UNCHANGED <<cvVars, swVars, iaVars>>

\* lines 292-334 and 346-354: success and failure both fall off the end of
\* the routine; after a failure the operator may have the containers cleaned
\* up; an exception out of start_containers becomes typer.Exit(1)
AfterStart ==
    /\ ipc = "started"
    /\ CASE result = "raised" ->
              /\ Exit(1)
              /\ UNCHANGED cleanVars
         [] result = "true" ->
              /\ Exit(0)
              /\ UNCHANGED cleanVars
         [] result = "false" ->
              /\ \E cleanup \in BOOLEAN :
                    /\ non_interactive => ~cleanup
                    /\ IF cleanup THEN CleanCall ELSE UNCHANGED cleanVars
              /\ Exit(0)
    /\ UNCHANGED <<non_interactive, start, named_requested, use_named_volumes, volumes,
                   cleanup_i, set_raised, rt_volumes, created_log, all_success>>
    /\ UNCHANGED <<startVars, statusVars, setupVars, volVars, cliVars, cfgVars>>
    /\ UNCHANGED <<cvVars, swVars, iaVars>>

install_docker ==
    \/ InstallConfirm
    \/ CreateSetVolume
    \/ CleanupVolume
    \/ SetRaise
    \/ CreateEtcVolume
    \/ VolumeError
    \/ GenerateFiles
    \/ CleanBeforeStart
    \/ StartContainers
    \/ AfterStart

\* one call of install_docker, on a host with or without an earlier
\* installation's containers
InitInstall ==
    /\ pc = "idle"
    /\ InitStartVars
    /\ InitVolVars
    /\ InitCliVars
    /\ InitCfgVars
    /\ InitCvVars
    /\ InitSwVars
    /\ InitIaVars
    /\ InitStatusVars
    /\ rt \in {{}, KnownObjects}
    /\ compose_file \in BOOLEAN
    /\ clean_in = NoCleanCall
    /\ clean_before = [rt |-> rt, compose_file |-> compose_file]
    /\ clean_results = <<>>
    /\ ipc = "confirm"
    /\ non_interactive \in BOOLEAN
    /\ start \in BOOLEAN
    /\ named_requested \in BOOLEAN
    /\ use_named_volumes = named_requested
    /\ volumes = <<>>
    /\ cleanup_i = 0
    /\ set_raised = FALSE
    /\ rt_volumes = {}
    /\ created_log = <<>>
    /\ all_success = FALSE
    /\ exit_code = "none"
    /\ InitSetupVars

SpecInstall == InitInstall /\ [][install_docker]_vars

\* C4: when create_volume_set fails on some volume type, then at the moment
\* its error reaches the caller no volume created earlier in that call still
\* exists.
C4_AllOrNothing ==
    (ipc = "volume_error" /\ set_raised) =>
        \A k \in 1..Len(volumes) : VolumeName(volumes[k]) \notin rt_volumes

C30_NoVolumeRemains ==
    (/\ named_requested
     /\ ipc \in {"volume_error", "files", "done"}
     /\ Len(created_log) < Len(VolumeOrder) + 1)
        => rt_volumes = {}

\* C30 with every delete_volume of the cleanup loop succeeding: the failure
\* of the extra volume alone, after a complete set
C30_NoVolumeRemains_AfterSet ==
    (ipc = "volume_error" /\ ~set_raised) => rt_volumes = {}

\* C27: when the operator declines the confirmation prompt of install_docker
\* the install ends with exit code 0 and has created no volume, file,
\* directory or container.
C27_DeclineExitsZero ==
    [][(ipc = "confirm" /\ ipc' = "done") =>
          /\ exit_code' = 0
          /\ rt_volumes' = {}
          /\ created_log' = <<>>
          /\ compose_file' = compose_file
          /\ rt' = rt]_vars

\* the part of C27 that the code keeps: a declined install has touched
\* neither the runtime nor the directory
C27_DeclineExitsZero_NothingCreated ==
    [][(ipc = "confirm" /\ ipc' = "done") =>
          /\ rt_volumes' = {}
          /\ created_log' = <<>>
          /\ compose_file' = compose_file
          /\ rt' = rt]_vars

(***************************************************************************)
(* _setup_docker_containers (install_mode/docker.py:657-847): the stack    *)
(* started container by container through the Docker client.              *)
(***************************************************************************)
\* every return of _setup_docker_containers
Finish(value) ==
    /\ status' = value
    /\ spc' = "done"

\* lines 697-707: an existing artifactory container is removed; anything
\* raised but NotFound reaches the except of line 841
RemoveExisting ==
    /\ spc = "remove_existing"
    /\ \E raised \in BOOLEAN :
          IF raised
          THEN /\ Finish("ERROR")
               /\ UNCHANGED c_app
          ELSE /\ c_app' = "absent"
               /\ spc' = "create"
               /\ UNCHANGED status
    /\ UNCHANGED <<c_pg, c_net, pg_started, pg_failed, slept, app_start_called>>
    /\ UNCHANGED <<startVars, statusVars, cleanVars, installVars, volVars, cliVars, cfgVars>>
    /\ UNCHANGED <<cvVars, swVars, iaVars>>

\* lines 718-737: the application container is created (a failure reaches
\* line 841); the network is created if missing, a failure there is a warning
CreateContainer ==
    /\ spc = "create"
    /\ \E raised \in BOOLEAN, net \in BOOLEAN :
          IF raised
          THEN /\ Finish("ERROR")
               /\ UNCHANGED <<c_app, c_net>>
          ELSE /\ c_app' = "created"
               /\ c_net' = (c_net \/ net)
               /\ spc' = "create_pg"
               /\ UNCHANGED status
    /\ UNCHANGED <<c_pg, pg_started, pg_failed, slept, app_start_called>>
    /\ UNCHANGED <<startVars, statusVars, cleanVars, installVars, volVars, cliVars, cfgVars>>
    /\ UNCHANGED <<cvVars, swVars, iaVars>>

\* lines 739-787: the database container; mkdir of its directory may raise
\* (line 841), anything raised while removing the old container or creating
\* the new one is only a warning
CreatePostgres ==
    /\ spc = "create_pg"
    /\ \E o \in {"mkdir_raised", "remove_raised", "create_raised", "created"} :
          CASE o = "mkdir_raised" ->
                 /\ Finish("ERROR")
                 /\ UNCHANGED c_pg
            [] o = "remove_raised" ->
                 /\ c_pg # "absent"
                 /\ spc' = "start_pg"
                 /\ UNCHANGED <<c_pg, status>>
            [] o = "create_raised" ->
                 /\ c_pg' = "absent"
                 /\ spc' = "start_pg"
                 /\ UNCHANGED status
            [] o = "created" ->
                 /\ c_pg' = "created"
                 /\ spc' = "start_pg"
                 /\ UNCHANGED status
    /\ UNCHANGED <<c_app, c_net, pg_started, pg_failed, slept, app_start_called>>
    /\ UNCHANGED <<startVars, statusVars, cleanVars, installVars, volVars, cliVars, cfgVars>>
    /\ UNCHANGED <<cvVars, swVars, iaVars>>

\* a slip: a failure to start the database container is only a warning, as
\* a failure to create it is
StartPostgres_Warns ==
    /\ spc = "start_pg"
    /\ \E raised \in BOOLEAN :
          /\ c_pg = "absent" => raised
          /\ IF raised
             THEN /\ pg_failed' = TRUE
                  /\ UNCHANGED <<c_pg, pg_started>>
             ELSE /\ c_pg' = "running"
                  /\ pg_started' = TRUE
                  /\ UNCHANGED pg_failed
    /\ spc' = "sleep"
    /\ UNCHANGED <<c_app, c_net, slept, app_start_called, status>>
    /\ UNCHANGED <<startVars, statusVars, cleanVars, installVars, volVars, cliVars, cfgVars>>
    /\ UNCHANGED <<cvVars, swVars, iaVars>>

\* lines 795-802: containers.get raises NotFound when the container was not
\* created; it or start() raising returns ERROR
StartPostgres ==
    /\ spc = "start_pg"
    /\ \E raised \in BOOLEAN :
          /\ c_pg = "absent" => raised
          /\ IF raised
             THEN /\ pg_failed' = TRUE
                  /\ Finish("ERROR")
                  /\ UNCHANGED <<c_pg, pg_started>>
             ELSE /\ c_pg' = "running"
                  /\ pg_started' = TRUE
                  /\ spc' = "sleep"
                  /\ UNCHANGED <<pg_failed, status>>
    /\ UNCHANGED <<c_app, c_net, slept, app_start_called>>
    /\ UNCHANGED <<startVars, statusVars, cleanVars, installVars, volVars, cliVars, cfgVars>>
    /\ UNCHANGED <<cvVars, swVars, iaVars>>

\* lines 804-806: time.sleep(5)
GraceDelay ==
    /\ spc = "sleep"
    /\ slept' = TRUE
    /\ spc' = "start_app"
    /\ UNCHANGED <<c_app, c_pg, c_net, pg_started, pg_failed, app_start_called, status>>
    /\ UNCHANGED <<startVars, statusVars, cleanVars, installVars, volVars, cliVars, cfgVars>>
    /\ UNCHANGED <<cvVars, swVars, iaVars>>

\* lines 808-847: with start, container.start(); its failure reaches line 841
StartArtifactory ==
    /\ spc = "start_app"
    /\ IF start
       THEN /\ app_start_called' = TRUE
            /\ \E raised \in BOOLEAN :
                  IF raised
                  THEN /\ Finish("ERROR")
                       /\ UNCHANGED c_app
                  ELSE /\ c_app' = "running"
                       /\ Finish("SUCCESS")
       ELSE /\ Finish("SUCCESS")
            /\ UNCHANGED <<c_app, app_start_called>>
    /\ UNCHANGED <<c_pg, c_net, pg_started, pg_failed, slept>>
    /\ UNCHANGED <<startVars, statusVars, cleanVars, installVars, volVars, cliVars, cfgVars>>
    /\ UNCHANGED <<cvVars, swVars, iaVars>>

setup_docker_containers ==
    \/ RemoveExisting
    \/ CreateContainer
    \/ CreatePostgres
    \/ StartPostgres
    \/ GraceDelay
    \/ StartArtifactory

\* one call, on a host where the containers and the network of an earlier
\* installation may exist
InitSetup ==
    /\ pc = "idle"
    /\ InitStartVars
    /\ InitVolVars
    /\ InitCliVars
    /\ InitCfgVars
    /\ InitCvVars
    /\ InitSwVars
    /\ InitIaVars
    /\ InitStatusVars
    /\ InitCleanVars
    /\ ipc = "idle"
    /\ non_interactive \in BOOLEAN
    /\ start \in BOOLEAN
    /\ named_requested = FALSE
    /\ use_named_volumes = FALSE
    /\ volumes = <<>>
    /\ cleanup_i = 0
    /\ set_raised = FALSE
    /\ rt_volumes = {}
    /\ created_log = <<>>
    /\ all_success = FALSE
    /\ exit_code = "none"
    /\ spc = "remove_existing"
    /\ c_app \in {"absent", "old"}
    /\ c_pg \in {"absent", "old"}
    /\ c_net \in BOOLEAN
    /\ pg_started = FALSE
    /\ pg_failed = FALSE
    /\ slept = FALSE
    /\ app_start_called = FALSE
    /\ status = "none"

SpecSetup == InitSetup /\ [][setup_docker_containers]_vars

\* C8: the application container is started only after the database
\* container has been started successfully and the grace delay has elapsed;
\* when the database container fails to start, the application container is
\* never started and a failure status is returned.
C8_DatabaseFirst ==
    /\ app_start_called => pg_started /\ slept /\ c_pg = "running"
    /\ c_app = "running" => app_start_called
    /\ slept => pg_started
    /\ pg_failed =>
          /\ ~app_start_called /\ c_app # "running"
          /\ spc = "done" /\ status = "ERROR"

\* C8 witness: the database container was started, the delay elapsed, and
\* the application container was started
C8_Witness ==
    /\ spc = "done" /\ status = "SUCCESS"
    /\ pg_started /\ slept /\ app_start_called /\ c_app = "running"

(***************************************************************************)
(* VolumeManager.backup_volume, restore_volume and migrate_data            *)
(* (docker/volume.py:272-471, 726-773).  File names and the names of the   *)
(* entries of a volume are sequences of characters; a volume's contents    *)
(* are a set of entries, each a name and the data it holds.                *)
(***************************************************************************)
Str_gz == <<".", "g", "z">>
Str_tgz == <<".", "t", "g", "z">>
Str_tar == <<".", "t", "a", "r">>

\* a slip: the suffix is looked for anywhere in the name
endswith_Anywhere(s, suffix) ==
    \E i \in 1..Len(s) :
        /\ i + Len(suffix) - 1 <= Len(s)
        /\ SubSeq(s, i, i + Len(suffix) - 1) = suffix

\* str.endswith
endswith(s, suffix) ==
    /\ Len(s) >= Len(suffix)
    /\ SubSeq(s, Len(s) - Len(suffix) + 1, Len(s)) = suffix

SourceVolume == <<"s">>
TargetVolume == <<"t">>

\* strftime("%Y%m%d%H%M%S") at the moment of a call
Timestamps == {<<"0">>, <<"1">>}

\* the entries a volume may hold: a plain name, a dotfile, and a name that
\* starts with two dots
EntryNames == {<<"a">>, <<".", "b">>, <<".", ".", "c">>}

Entries(names, data) == {[name |-> n, data |-> data] : n \in names}

\* what the source and the target volume hold when the run starts
SourceContents == {Entries({<<"a">>}, "new"), Entries({<<"a">>, <<".", "b">>}, "new")}
TargetContents == {{}, Entries({<<"a">>, <<".", "b">>}, "old"), Entries(EntryNames, "old")}

\* archives that are on the host before the run, under any of these names,
\* written with or without gzip
ArchiveNames ==
    {<<"x", ".", "t", "a", "r">>,
     <<"x", ".", "t", "a", "r", ".", "g", "z">>,
     <<"x", ".", "t", "g", "z">>,
     <<"x", "g", "z">>,
     <<"x", ".", "g", "z", ".", "b">>}

ForeignArchives ==
    [dir : {"downloads"}, name : ArchiveNames, content : {Entries({<<"a">>}, "ext")},
     gz : BOOLEAN]

\* lines 292-295: the name of the archive backup_volume writes
BackupFileName(volume, timestamp, compress) ==
    volume \o <<"_">> \o timestamp \o Str_tar \o (IF compress THEN Str_gz ELSE <<>>)

\* line 336: <volume>_<timestamp>_metadata.json, with the timestamp of the
\* archive's name
MetadataFileName(volume, archive_name) ==
    LET timestamp == CHOOSE ts \in Timestamps :
                        \E c \in BOOLEAN : archive_name = BackupFileName(volume, ts, c)
    IN  volume \o <<"_">> \o timestamp \o <<"_", "m", ".", "j">>

\* Path.exists() of an archive path
Exists(path) == \E f \in host_files : f.dir = path.dir /\ f.name = path.name

ArchiveAt(path) == CHOOSE f \in host_files : f.dir = path.dir /\ f.name = path.name

\* docker run -v <volume>:/mnt creates a volume that does not exist
Mounted(vols, name) ==
    IF name \in DOMAIN vols THEN vols ELSE vols @@ (name :> {})

\* sh: the pattern * does not match a name that starts with a dot
MatchesStar(n) == n[1] # "."
\* sh: the pattern .[!.]* matches a dot, then a character other than a dot
MatchesDotGlob(n) == Len(n) >= 2 /\ n[1] = "." /\ n[2] # "."

\* line 454: rm -rf /target/* /target/.[!.]*
Cleared(content) ==
    {e \in content : ~(MatchesStar(e.name) \/ MatchesDotGlob(e.name))}

\* line 454: tar -x into the target: the archive's entries replace entries of
\* the same name, every other entry stays
Extracted(content, archive) ==
    {e \in content : \A a \in archive : a.name # e.name} \cup archive

\* the frame of a call of is_docker_available and of every other _run_command
Spawn(cmds) == proc_log' = proc_log \o cmds

\* line 747: migrate_data calls backup_volume with compress=True
compress == IF vop = "migrate" THEN TRUE ELSE v_args.compress

\* backup_volume returns: to migrate_data, or to the caller of the entry point
ReturnBackup(status_, path) ==
    /\ b_status' = status_
    /\ backup_file' = path
    /\ IF vop = "migrate"
       THEN /\ vpc' = "m_backed_up"
            /\ UNCHANGED v_result
       ELSE /\ vpc' = "done"
            /\ v_result' = status_

\* lines 285-286
BackupPreflight ==
    /\ vpc = "backup"
    /\ Spawn(<<"docker --version">>)
    /\ IF docker_available
       THEN /\ vpc' = "b_mkdir"
            /\ UNCHANGED <<b_status, backup_file, v_result>>
       ELSE ReturnBackup("ERROR", NoPath)
    /\ UNCHANGED <<vop, phase, v_args, docker_available, vol_data, host_files, host_dirs,
                   volume_name, is_compressed, tar_command, r_status, r_name, snap,
                   unlink_attempted, v_before>>
    /\ UNCHANGED <<startVars, statusVars, cleanVars, installVars, setupVars, cliVars,
                   cfgVars, cvVars, swVars, iaVars>>

\* lines 288-295: backup_path.mkdir(parents=True, exist_ok=True) is outside
\* the try block, its OSError leaves backup_volume; on a directory that
\* exists it does nothing
BackupMkdir ==
    /\ vpc = "b_mkdir"
    /\ \E o \in {"ok", "oserror"} :
          /\ (o = "oserror") => (v_args.dir \notin host_dirs)
          /\ IF o = "ok"
             THEN /\ host_dirs' = host_dirs \cup {v_args.dir}
                  /\ \E ts \in Timestamps :
                        backup_file' = [dir |-> v_args.dir,
                                        name |-> BackupFileName(v_args.volume, ts, compress)]
                  /\ vpc' = "b_tar"
                  /\ UNCHANGED v_result
             ELSE /\ vpc' = "done"
                  /\ v_result' = "raised"
                  /\ UNCHANGED <<host_dirs, backup_file>>
    /\ UNCHANGED <<vop, phase, v_args, docker_available, vol_data, host_files, proc_log,
                   b_status, volume_name, is_compressed, tar_command, r_status, r_name,
                   snap, unlink_attempted, v_before>>
    /\ UNCHANGED <<startVars, statusVars, cleanVars, installVars, setupVars, cliVars,
                   cfgVars, cvVars, swVars, iaVars>>

\* lines 308-330: docker run ... tar -cf / -czf of the volume into the archive
BackupTar ==
    /\ vpc = "b_tar"
    /\ Spawn(<<"docker run tar c">>)
    /\ \E o \in {"ok", "failed"} :
          IF o = "ok"
          THEN /\ vol_data' = Mounted(vol_data, v_args.volume)
               /\ snap' = vol_data'[v_args.volume]
               /\ host_files' =
                     {f \in host_files :
                         ~(f.dir = backup_file.dir /\ f.name = backup_file.name)}
                     \cup {[dir |-> backup_file.dir, name |-> backup_file.name,
                            content |-> vol_data'[v_args.volume], gz |-> compress]}
               /\ vpc' = "b_meta"
               /\ UNCHANGED <<b_status, backup_file, v_result>>
          ELSE /\ ReturnBackup("ERROR", NoPath)
               /\ UNCHANGED <<vol_data, snap, host_files>>
    /\ UNCHANGED <<vop, phase, v_args, docker_available, host_dirs, volume_name,
                   is_compressed, tar_command, r_status, r_name, unlink_attempted,
                   v_before>>
    /\ UNCHANGED <<startVars, statusVars, cleanVars, installVars, setupVars, cliVars,
                   cfgVars, cvVars, swVars, iaVars>>

\* lines 332-354: get_volume_info, and when it gives something the metadata
\* file; an error writing it makes the backup an ERROR
BackupMetadata ==
    /\ vpc = "b_meta"
    /\ Spawn(<<"docker --version", "docker volume inspect">>)
    /\ \E o \in {"no_info", "written", "oserror"} :
          CASE o = "no_info" ->
                  /\ ReturnBackup("SUCCESS", backup_file)
                  /\ UNCHANGED host_files
            [] o = "written" ->
                  /\ host_files' = host_files \cup
                        {[dir |-> backup_file.dir,
                          name |-> MetadataFileName(v_args.volume, backup_file.name),
                          content |-> {}, gz |-> FALSE]}
                  /\ ReturnBackup("SUCCESS", backup_file)
            [] o = "oserror" ->
                  /\ ReturnBackup("ERROR", NoPath)
                  /\ UNCHANGED host_files
    /\ UNCHANGED <<vop, phase, v_args, docker_available, vol_data, host_dirs, volume_name,
                   is_compressed, tar_command, r_status, r_name, snap, unlink_attempted,
                   v_before>>
    /\ UNCHANGED <<startVars, statusVars, cleanVars, installVars, setupVars, cliVars,
                   cfgVars, cvVars, swVars, iaVars>>

\* the arguments of restore_volume: migrate_data passes the archive it made
\* and the target volume (line 753)
RestoreFile == IF vop = "migrate" THEN backup_file ELSE v_args.file
RestoreVolumeName == IF vop = "migrate" THEN v_args.target ELSE v_args.volume_name
\* a slip: a restore without a type takes the data type
RestoreVolumeType_Defaulted ==
    IF vop = "migrate" THEN "none"
    ELSE IF v_args.volume_type = "none" THEN "data" ELSE v_args.volume_type

RestoreVolumeType == IF vop = "migrate" THEN "none" ELSE v_args.volume_type

\* line 413: the volume restore_volume creates when it is given no name
RestoredVolumeName(type, timestamp) ==
    <<"artifactory", "_", type, "_", "restored", "_">> \o timestamp

\* restore_volume returns: to migrate_data, or to the caller of the entry point
ReturnRestore(status_, name) ==
    /\ r_status' = status_
    /\ r_name' = name
    /\ IF vop = "migrate"
       THEN /\ vpc' = "m_restored"
            /\ UNCHANGED v_result
       ELSE /\ vpc' = "done"
            /\ v_result' = status_

\* lines 374-394: the runtime query, the archive's existence, the suffix of
\* its name, and the check that a name or a type was given
RestorePreflight ==
    /\ vpc = "restore"
    /\ Spawn(<<"docker --version">>)
    /\ CASE ~docker_available ->
              /\ ReturnRestore("ERROR", <<>>)
              /\ UNCHANGED <<is_compressed, volume_name>>
         [] docker_available /\ ~Exists(RestoreFile) ->
              /\ ReturnRestore("ERROR", <<>>)
              /\ UNCHANGED <<is_compressed, volume_name>>
         [] docker_available /\ Exists(RestoreFile) ->
              /\ is_compressed' = (endswith(RestoreFile.name, Str_gz)
                                      \/ endswith(RestoreFile.name, Str_tgz))
              /\ volume_name' = RestoreVolumeName
              /\ IF RestoreVolumeName = <<>>
                 THEN IF RestoreVolumeType = "none"
                      THEN ReturnRestore("ERROR", <<>>)
                      ELSE /\ vpc' = "r_create"
                           /\ UNCHANGED <<r_status, r_name, v_result>>
                 ELSE /\ vpc' = "r_extract"
                      /\ UNCHANGED <<r_status, r_name, v_result>>
    /\ UNCHANGED <<vop, phase, v_args, docker_available, vol_data, host_files, host_dirs,
                   backup_file, b_status, tar_command, snap, unlink_attempted, v_before>>
    /\ UNCHANGED <<startVars, statusVars, cleanVars, installVars, setupVars, cliVars,
                   cfgVars, cvVars, swVars, iaVars>>

\* lines 396-422: create_volume for the new volume; whatever it raises makes
\* the restore an ERROR
RestoreCreate ==
    /\ vpc = "r_create"
    /\ Spawn(<<"docker --version", "docker volume create">>)
    /\ \E o \in {"created", "failed"}, ts \in Timestamps :
          IF o = "created"
          THEN /\ volume_name' = RestoredVolumeName(RestoreVolumeType, ts)
               /\ vol_data' = Mounted(vol_data, volume_name')
               /\ vpc' = "r_extract"
               /\ UNCHANGED <<r_status, r_name, v_result>>
          ELSE /\ ReturnRestore("ERROR", <<>>)
               /\ UNCHANGED <<volume_name, vol_data>>
    /\ UNCHANGED <<vop, phase, v_args, docker_available, host_files, host_dirs,
                   backup_file, b_status, is_compressed, tar_command, snap,
                   unlink_attempted, v_before>>
    /\ UNCHANGED <<startVars, statusVars, cleanVars, installVars, setupVars, cliVars,
                   cfgVars, cvVars, swVars, iaVars>>

\* what the container of line 442 can do to the target: it does not run;
\* rm runs and tar fails; both run.  tar -xzf fails on an archive that was
\* written without gzip
ExtractOutcomes(archive, command_) ==
    IF command_ = "tar -xzf" /\ ~archive.gz
    THEN {"not_run", "tar_failed"}
    ELSE {"not_run", "tar_failed", "ok"}

\* lines 435-471: rm -rf of the target's contents, then the extraction
RestoreExtract ==
    /\ vpc = "r_extract"
    /\ Spawn(<<"docker run tar x">>)
    /\ LET command_ == IF is_compressed THEN "tar -xzf" ELSE "tar -xf"
           archive == ArchiveAt(RestoreFile)
           mounted == Mounted(vol_data, volume_name)
       IN  /\ tar_command' = command_
           /\ \E o \in ExtractOutcomes(archive, command_) :
                 CASE o = "not_run" ->
                         /\ ReturnRestore("ERROR", <<>>)
                         /\ UNCHANGED vol_data
                   [] o = "tar_failed" ->
                         /\ vol_data' = [mounted EXCEPT
                                            ![volume_name] = Cleared(@)]
                         /\ ReturnRestore("ERROR", <<>>)
                   [] o = "ok" ->
                         /\ vol_data' = [mounted EXCEPT
                                            ![volume_name] =
                                                Extracted(Cleared(@), archive.content)]
                         /\ ReturnRestore("SUCCESS", volume_name)
    /\ UNCHANGED <<vop, phase, v_args, docker_available, host_files, host_dirs,
                   backup_file, b_status, volume_name, is_compressed, snap,
                   unlink_attempted, v_before>>
    /\ UNCHANGED <<startVars, statusVars, cleanVars, installVars, setupVars, cliVars,
                   cfgVars, cvVars, swVars, iaVars>>

\* lines 739-744: temp_dir.mkdir, before anything asks for the runtime
MigrateMkdir ==
    /\ vpc = "migrate"
    /\ \E o \in {"ok", "oserror"} :
          /\ (o = "oserror") => (v_args.dir \notin host_dirs)
          /\ IF o = "ok"
             THEN /\ host_dirs' = host_dirs \cup {v_args.dir}
                  /\ vpc' = "backup"
                  /\ UNCHANGED v_result
             ELSE /\ vpc' = "done"
                  /\ v_result' = "raised"
                  /\ UNCHANGED host_dirs
    /\ UNCHANGED <<vop, phase, v_args, docker_available, vol_data, host_files, proc_log,
                   backup_file, b_status, volume_name, is_compressed, tar_command,
                   r_status, r_name, snap, unlink_attempted, v_before>>
    /\ UNCHANGED <<startVars, statusVars, cleanVars, installVars, setupVars, cliVars,
                   cfgVars, cvVars, swVars, iaVars>>

\* a slip: the status of backup_volume is not looked at
MigrateAfterBackup_Continues ==
    /\ vpc = "m_backed_up"
    /\ vpc' = "restore"
    /\ UNCHANGED <<vop, phase, v_args, docker_available, vol_data, host_files, host_dirs,
                   proc_log, backup_file, b_status, volume_name, is_compressed,
                   tar_command, r_status, r_name, v_result, snap, unlink_attempted,
                   v_before>>
    /\ UNCHANGED <<startVars, statusVars, cleanVars, installVars, setupVars, cliVars,
                   cfgVars, cvVars, swVars, iaVars>>

\* lines 747-753: after backup_volume, return False or go on to restore_volume
MigrateAfterBackup ==
    /\ vpc = "m_backed_up"
    /\ IF b_status # "SUCCESS" \/ backup_file = NoPath
       THEN /\ vpc' = "done"
            /\ v_result' = "False"
       ELSE /\ vpc' = "restore"
            /\ UNCHANGED v_result
    /\ UNCHANGED <<vop, phase, v_args, docker_available, vol_data, host_files, host_dirs,
                   proc_log, backup_file, b_status, volume_name, is_compressed,
                   tar_command, r_status, r_name, snap, unlink_attempted, v_before>>
    /\ UNCHANGED <<startVars, statusVars, cleanVars, installVars, setupVars, cliVars,
                   cfgVars, cvVars, swVars, iaVars>>

\* lines 754-773: after restore_volume, return False, or unlink the archive
\* (an error of unlink is swallowed) and return True
MigrateAfterRestore ==
    /\ vpc = "m_restored"
    /\ IF r_status # "SUCCESS"
       THEN /\ v_result' = "False"
            /\ UNCHANGED <<host_files, unlink_attempted>>
       ELSE /\ unlink_attempted' = TRUE
            /\ \E o \in {"ok", "oserror"} :
                  host_files' =
                     IF o = "ok"
                     THEN {f \in host_files :
                              ~(f.dir = backup_file.dir /\ f.name = backup_file.name)}
                     ELSE host_files
            /\ v_result' = "True"
    /\ vpc' = "done"
    /\ UNCHANGED <<vop, phase, v_args, docker_available, vol_data, host_dirs, proc_log,
                   backup_file, b_status, volume_name, is_compressed, tar_command,
                   r_status, r_name, snap, v_before>>
    /\ UNCHANGED <<startVars, statusVars, cleanVars, installVars, setupVars, cliVars,
                   cfgVars, cvVars, swVars, iaVars>>

\* what a host directory given to import holds
HostPathContent == Entries({<<"a">>}, "ext")

\* a simple entry point returns to its caller
ReturnValue(value) ==
    /\ v_result' = value
    /\ vpc' = "done"

\* list_volumes, lines 94-129: an empty list without the runtime or when
\* docker volume ls fails
ListVolumes ==
    /\ vpc = "list"
    /\ IF docker_available
       THEN /\ Spawn(<<"docker --version", "docker volume ls">>)
            /\ \E o \in {"list", "empty"} : ReturnValue(o)
       ELSE /\ Spawn(<<"docker --version">>)
            /\ ReturnValue("empty")
    /\ UNCHANGED <<vop, phase, v_args, docker_available, vol_data, host_files, host_dirs,
                   backup_file, b_status, volume_name, is_compressed, tar_command,
                   r_status, r_name, snap, unlink_attempted, v_before>>
    /\ UNCHANGED <<startVars, statusVars, cleanVars, installVars, setupVars, cliVars,
                   cfgVars, cvVars, swVars, iaVars>>

\* create_volume, lines 131-225: RuntimeError without the runtime; then the
\* host path is made if one is given, then docker volume create
CreateVolume ==
    /\ vpc = "create"
    /\ IF docker_available
       THEN \E o \in {"created", "failed", "oserror"} :
               /\ (o = "oserror") => (v_args.dir # "none")
               /\ IF o = "oserror"
                  THEN /\ Spawn(<<"docker --version">>)
                       /\ UNCHANGED host_dirs
                  ELSE /\ Spawn(<<"docker --version", "docker volume create">>)
                       /\ host_dirs' = IF v_args.dir # "none"
                                       THEN host_dirs \cup {v_args.dir}
                                       ELSE host_dirs
               /\ vol_data' = IF o = "created"
                              THEN Mounted(vol_data, v_args.volume)
                              ELSE vol_data
               /\ ReturnValue(IF o = "created" THEN "created" ELSE "raised")
       ELSE /\ Spawn(<<"docker --version">>)
            /\ ReturnValue("raised")
            /\ UNCHANGED <<vol_data, host_dirs>>
    /\ UNCHANGED <<vop, phase, v_args, docker_available, host_files, backup_file,
                   b_status, volume_name, is_compressed, tar_command, r_status, r_name,
                   snap, unlink_attempted, v_before>>
    /\ UNCHANGED <<startVars, statusVars, cleanVars, installVars, setupVars, cliVars,
                   cfgVars, cvVars, swVars, iaVars>>

\* delete_volume, lines 246-270: False without the runtime or when docker
\* volume rm fails
DeleteVolume ==
    /\ vpc = "delete"
    /\ IF docker_available
       THEN /\ Spawn(<<"docker --version", "docker volume rm">>)
            /\ \E o \in {"deleted", "failed"} :
                  /\ (o = "deleted") => (v_args.volume \in DOMAIN vol_data)
                  /\ vol_data' = IF o = "deleted"
                                 THEN [n \in DOMAIN vol_data \ {v_args.volume} |->
                                          vol_data[n]]
                                 ELSE vol_data
                  /\ ReturnValue(IF o = "deleted" THEN "True" ELSE "False")
       ELSE /\ Spawn(<<"docker --version">>)
            /\ ReturnValue("False")
            /\ UNCHANGED vol_data
    /\ UNCHANGED <<vop, phase, v_args, docker_available, host_files, host_dirs,
                   backup_file, b_status, volume_name, is_compressed, tar_command,
                   r_status, r_name, snap, unlink_attempted, v_before>>
    /\ UNCHANGED <<startVars, statusVars, cleanVars, installVars, setupVars, cliVars,
                   cfgVars, cvVars, swVars, iaVars>>

\* get_volume_info, lines 473-495: None without the runtime, when the
\* inspection fails, or when it lists nothing
GetVolumeInfo ==
    /\ vpc = "info"
    /\ IF docker_available
       THEN /\ Spawn(<<"docker --version", "docker volume inspect">>)
            /\ \E o \in {"info", "None"} :
                  /\ (o = "info") => (v_args.volume \in DOMAIN vol_data)
                  /\ ReturnValue(o)
       ELSE /\ Spawn(<<"docker --version">>)
            /\ ReturnValue("None")
    /\ UNCHANGED <<vop, phase, v_args, docker_available, vol_data, host_files, host_dirs,
                   backup_file, b_status, volume_name, is_compressed, tar_command,
                   r_status, r_name, snap, unlink_attempted, v_before>>
    /\ UNCHANGED <<startVars, statusVars, cleanVars, installVars, setupVars, cliVars,
                   cfgVars, cvVars, swVars, iaVars>>

\* get_volume_size, lines 497-545: None without the runtime or without the
\* volume's info; else du in a container that mounts the volume
GetVolumeSize ==
    /\ vpc = "size"
    /\ IF docker_available
       THEN \E o \in {"size", "no_info", "failed"} :
               /\ (o # "no_info") => (v_args.volume \in DOMAIN vol_data)
               /\ Spawn(<<"docker --version", "docker --version",
                          "docker volume inspect">>
                        \o (IF o = "no_info" THEN <<>> ELSE <<"docker run du">>))
               /\ ReturnValue(IF o = "size" THEN "size" ELSE "None")
       ELSE /\ Spawn(<<"docker --version">>)
            /\ ReturnValue("None")
    /\ UNCHANGED <<vop, phase, v_args, docker_available, vol_data, host_files, host_dirs,
                   backup_file, b_status, volume_name, is_compressed, tar_command,
                   r_status, r_name, snap, unlink_attempted, v_before>>
    /\ UNCHANGED <<startVars, statusVars, cleanVars, installVars, setupVars, cliVars,
                   cfgVars, cvVars, swVars, iaVars>>

\* analyze_data_usage, lines 865-931: an error dict without the runtime or
\* when du fails; the container of line 881 mounts the volume; the total
\* comes from get_volume_size
AnalyzeDataUsage ==
    /\ vpc = "analyze"
    /\ IF docker_available
       THEN /\ \E o \in {"analysis", "error", "not_run"} :
                  /\ Spawn(<<"docker --version", "docker run du">>
                           \o (IF o = "analysis"
                               THEN <<"docker --version", "docker --version",
                                      "docker volume inspect", "docker run du">>
                               ELSE <<>>))
                  /\ vol_data' = IF o = "not_run"
                                 THEN vol_data
                                 ELSE Mounted(vol_data, v_args.volume)
                  /\ ReturnValue(IF o = "analysis" THEN "analysis" ELSE "error")
       ELSE /\ Spawn(<<"docker --version">>)
            /\ ReturnValue("error")
            /\ UNCHANGED vol_data
    /\ UNCHANGED <<vop, phase, v_args, docker_available, host_files, host_dirs,
                   backup_file, b_status, volume_name, is_compressed, tar_command,
                   r_status, r_name, snap, unlink_attempted, v_before>>
    /\ UNCHANGED <<startVars, statusVars, cleanVars, installVars, setupVars, cliVars,
                   cfgVars, cvVars, swVars, iaVars>>

\* migrate_from_bind_mount, lines 775-863: False without the runtime or
\* without the source path; else cp -a of the path's contents into the
\* volume, and the two label commands, whose failures are ignored
MigrateFromBindMount ==
    /\ vpc = "import"
    /\ CASE ~docker_available ->
              /\ Spawn(<<"docker --version">>)
              /\ ReturnValue("False")
              /\ UNCHANGED vol_data
         [] docker_available /\ v_args.dir \notin host_dirs ->
              /\ Spawn(<<"docker --version">>)
              /\ ReturnValue("False")
              /\ UNCHANGED vol_data
         [] docker_available /\ v_args.dir \in host_dirs ->
              \E o \in {"copied", "failed"} :
                 IF o = "copied"
                 THEN /\ Spawn(<<"docker --version", "docker run cp",
                                 "docker volume label", "docker volume label">>)
                      /\ vol_data' = [Mounted(vol_data, v_args.volume) EXCEPT
                                         ![v_args.volume] =
                                             Extracted(@, HostPathContent)]
                      /\ ReturnValue("True")
                 ELSE /\ Spawn(<<"docker --version", "docker run cp">>)
                      /\ ReturnValue("False")
                      /\ UNCHANGED vol_data
    /\ UNCHANGED <<vop, phase, v_args, docker_available, host_files, host_dirs,
                   backup_file, b_status, volume_name, is_compressed, tar_command,
                   r_status, r_name, snap, unlink_attempted, v_before>>
    /\ UNCHANGED <<startVars, statusVars, cleanVars, installVars, setupVars, cliVars,
                   cfgVars, cvVars, swVars, iaVars>>

\* the archive paths a caller may name: every archive on the host, and one
\* that is not there
ArchivePaths ==
    {[dir |-> f.dir, name |-> f.name] : f \in host_files}
        \cup {[dir |-> "downloads", name |-> <<"n", ".", "t", "a", "r">>]}

\* the calls of restore_volume a caller may make
RestoreCalls ==
    {[NoArgs EXCEPT !.op = "restore", !.file = f, !.volume_name = n,
                    !.volume_type = t] :
        f \in ArchivePaths, n \in {<<>>, TargetVolume}, t \in {"none", "data"}}

\* the calls a caller may make on a VolumeManager
VolumeCalls ==
    {[NoArgs EXCEPT !.op = "backup", !.volume = SourceVolume, !.dir = "backup_path",
                    !.compress = c] : c \in BOOLEAN}
    \cup RestoreCalls
    \cup {[NoArgs EXCEPT !.op = "migrate", !.volume = SourceVolume,
                         !.target = TargetVolume, !.dir = "temp_dir"]}
    \cup {[NoArgs EXCEPT !.op = o, !.volume = TargetVolume] :
             o \in {"list", "delete", "info", "size", "analyze"}}
    \cup {[NoArgs EXCEPT !.op = o, !.volume = TargetVolume, !.dir = d] :
             o \in {"create", "import"}, d \in {"none", "host_path"}}

\* a caller invokes an entry point; after a backup that succeeded the caller
\* may go on to restore
VolumeCall ==
    /\ \/ vpc = "idle"
       \/ vpc = "done" /\ phase = "first" /\ vop = "backup" /\ b_status = "SUCCESS"
    /\ phase' = (IF vpc = "idle" THEN "first" ELSE "second")
    /\ \E a \in (IF vpc = "idle" THEN VolumeCalls ELSE RestoreCalls) :
          /\ v_args' = a
          /\ vop' = a.op
          /\ vpc' = a.op
    /\ proc_log' = <<>>
    /\ v_result' = "none"
    /\ v_before' = [vol_data |-> vol_data, host_files |-> host_files,
                    host_dirs |-> host_dirs]
    /\ UNCHANGED <<docker_available, vol_data, host_files, host_dirs, backup_file,
                   b_status, volume_name, is_compressed, tar_command, r_status, r_name,
                   snap, unlink_attempted>>
    /\ UNCHANGED <<startVars, statusVars, cleanVars, installVars, setupVars, cliVars,
                   cfgVars, cvVars, swVars, iaVars>>

VolumeManager ==
    \/ VolumeCall
    \/ BackupPreflight
    \/ BackupMkdir
    \/ BackupTar
    \/ BackupMetadata
    \/ RestorePreflight
    \/ RestoreCreate
    \/ RestoreExtract
    \/ MigrateMkdir
    \/ MigrateAfterBackup
    \/ MigrateAfterRestore
    \/ ListVolumes
    \/ CreateVolume
    \/ DeleteVolume
    \/ GetVolumeInfo
    \/ GetVolumeSize
    \/ AnalyzeDataUsage
    \/ MigrateFromBindMount

\* a host with or without the container runtime, a source volume, a target
\* volume that exists or not, and at most one archive from elsewhere
InitVolume ==
    /\ pc = "idle"
    /\ InitStartVars
    /\ InitStatusVars
    /\ InitCleanVars
    /\ InitInstallVars
    /\ InitSetupVars
    /\ InitCliVars
    /\ InitCfgVars
    /\ InitCvVars
    /\ InitSwVars
    /\ InitIaVars
    /\ vpc = "idle"
    /\ vop = "none"
    /\ phase = "first"
    /\ v_args = NoArgs
    /\ docker_available \in BOOLEAN
    /\ \E src \in SourceContents :
          \/ vol_data = (SourceVolume :> src)
          \/ \E tgt \in TargetContents :
                vol_data = (SourceVolume :> src) @@ (TargetVolume :> tgt)
    /\ host_files \in {{}} \cup {{f} : f \in ForeignArchives}
    /\ host_dirs \in {{"downloads"}, {"downloads", "host_path"}}
    /\ proc_log = <<>>
    /\ backup_file = NoPath
    /\ b_status = "none"
    /\ volume_name = <<>>
    /\ is_compressed = FALSE
    /\ tar_command = "none"
    /\ r_status = "none"
    /\ r_name = <<>>
    /\ v_result = "none"
    /\ snap = {}
    /\ unlink_attempted = FALSE
    /\ v_before = [vol_data |-> vol_data, host_files |-> host_files,
                   host_dirs |-> host_dirs]

SpecVolume == InitVolume /\ [][VolumeManager]_vars

(***************************************************************************)
(* Claims about backup_volume, restore_volume and migrate_data.            *)
(***************************************************************************)
\* the name ends in the three characters .gz or in the four characters .tgz
GzipSuffix(n) ==
    LET L == Len(n)
    IN  \/ L >= 3 /\ n[L - 2] = "." /\ n[L - 1] = "g" /\ n[L] = "z"
        \/ L >= 4 /\ n[L - 3] = "." /\ n[L - 2] = "t" /\ n[L - 1] = "g" /\ n[L] = "z"

\* restore_volume is extracting, or has extracted, the archive that the
\* backup_volume call before it produced
RestoresOwnBackup ==
    /\ tar_command # "none"
    /\ b_status = "SUCCESS"
    /\ RestoreFile = backup_file
    /\ Exists(RestoreFile)

\* C11: restore_volume extracts with decompression exactly when the archive's
\* file name ends in .gz or .tgz, whatever the other arguments are; an archive
\* that backup_volume produced, with or without compress, is therefore
\* extracted in the mode it was written in.
C11_ExtractionBySuffix ==
    /\ (tar_command # "none") =>
          ((tar_command = "tar -xzf") <=> GzipSuffix(RestoreFile.name))
    /\ RestoresOwnBackup =>
          ((tar_command = "tar -xzf") <=> ArchiveAt(RestoreFile).gz)

\* C11 witness: a compressed and an uncompressed backup, each restored by
\* the next call; here the compressed one
C11_Witness ==
    /\ phase = "second" /\ vpc = "done" /\ r_status = "SUCCESS"
    /\ RestoresOwnBackup
    /\ ArchiveAt(RestoreFile).gz
    /\ tar_command = "tar -xzf"

\* C12: after a backup_volume that succeeded and a restore_volume of the
\* archive it produced that succeeded, the target volume holds exactly what
\* the source held when it was archived, and nothing of what the target held
\* before.
C12_RestoreEqualsSource ==
    (/\ vpc = "done" /\ vop \in {"restore", "migrate"}
     /\ b_status = "SUCCESS" /\ r_status = "SUCCESS"
     /\ RestoreFile = backup_file)
        => vol_data[r_name] = snap

C14_MigrateComposes ==
    (vop = "migrate") =>
        /\ (v_result = "True") =>
              /\ b_status = "SUCCESS" /\ r_status = "SUCCESS"
              /\ unlink_attempted
        /\ (b_status \notin {"none", "SUCCESS"}) =>
              /\ vpc \in {"m_backed_up", "done"}
              /\ r_status = "none" /\ tar_command = "none"
              /\ \A k \in 1..Len(proc_log) : proc_log[k] # "docker run tar x"
              /\ (vpc = "done") => (v_result = "False")

\* C14 witness: a migration that returned True
C14_Witness ==
    /\ vop = "migrate" /\ vpc = "done" /\ v_result = "True"
    /\ unlink_attempted

\* C14 witness of the other case: the backup failed
C14_Witness_BackupFailed ==
    /\ vop = "migrate" /\ vpc = "done" /\ b_status = "ERROR" /\ docker_available

\* C15: without the container runtime an entry point reports failure and
\* leaves every volume, file and directory as it found them.
C15_NoRuntimeNoEffect ==
    (~docker_available /\ vpc = "done") =>
        /\ v_result \in {"ERROR", "False", "None", "empty", "error", "raised"}
        /\ vol_data = v_before.vol_data
        /\ host_files = v_before.host_files
        /\ host_dirs = v_before.host_dirs

(***************************************************************************)
(* The sapo volume commands (cli/cli.py:292-656).                          *)
(***************************************************************************)
\* the @volume_app.command registrations, in the order of the file: the
\* command name and the function
Registered ==
    <<[name |-> "list", fn |-> "volume_list"],
      [name |-> "create", fn |-> "volume_create"],
      [name |-> "delete", fn |-> "volume_delete"],
      [name |-> "backup", fn |-> "volume_backup"],
      [name |-> "restore", fn |-> "volume_restore"],
      [name |-> "migrate", fn |-> "volume_migrate"],
      [name |-> "list", fn |-> "list"],
      [name |-> "backup", fn |-> "backup"],
      [name |-> "restore", fn |-> "restore"],
      [name |-> "create", fn |-> "create"],
      [name |-> "migrate", fn |-> "migrate"],
      [name |-> "import-path", fn |-> "import_path"],
      [name |-> "analyze", fn |-> "analyze"]>>

\* Typer builds the group's name -> command dict by going through the
\* registrations in order, so the last registration of a name is the one bound
Bound(name) ==
    LET last == CHOOSE k \in 1..Len(Registered) :
                    /\ Registered[k].name = name
                    /\ \A j \in (k + 1)..Len(Registered) : Registered[j].name # name
    IN  Registered[last].fn

\* whether the function asks typer.confirm before it calls the manager:
\* volume_delete unless --force (line 371), volume_restore when a volume name
\* is given (line 444), volume_migrate always (line 478); the others never
AsksConfirmation(fn, cmd) ==
    CASE fn = "volume_delete" -> ~cmd.force
      [] fn = "volume_restore" -> cmd.volume # <<>>
      [] fn = "volume_migrate" -> TRUE
      [] OTHER -> FALSE

\* the command lines an operator may type
CommandLines ==
    {[NoCommand EXCEPT !.name = "delete", !.volume = TargetVolume, !.force = f] :
        f \in BOOLEAN}
    \cup {[NoCommand EXCEPT !.name = "backup", !.volume = SourceVolume,
                            !.compress = c] : c \in BOOLEAN}
    \cup {[NoCommand EXCEPT !.name = "restore", !.file = f, !.volume = n, !.type = t] :
             f \in ArchivePaths, n \in {<<>>, TargetVolume}, t \in {"none", "data"}}
    \cup {[NoCommand EXCEPT !.name = "migrate", !.volume = SourceVolume]}

\* the VolumeManager call the function makes for a command line
ManagerCall(cmd) ==
    CASE cmd.name = "delete" ->
            [NoArgs EXCEPT !.op = "delete", !.volume = cmd.volume]
      [] cmd.name = "backup" ->
            [NoArgs EXCEPT !.op = "backup", !.volume = cmd.volume,
                           !.dir = "backup_path", !.compress = cmd.compress]
      [] cmd.name = "restore" ->
            [NoArgs EXCEPT !.op = "restore", !.file = cmd.file,
                           !.volume_name = cmd.volume, !.volume_type = cmd.type]
      [] cmd.name = "migrate" ->
            [NoArgs EXCEPT !.op = "migrate", !.volume = cmd.volume,
                           !.target = TargetVolume, !.dir = "temp_dir"]

\* the command line is parsed and its name looked up
Invoke ==
    /\ cpc = "idle"
    /\ \E cmd \in CommandLines :
          /\ command' = cmd
          /\ handler' = Bound(cmd.name)
    /\ cpc' = "handler"
    /\ UNCHANGED <<confirm_asked, confirm_answer, returned, cli_exit>>
    /\ UNCHANGED <<startVars, statusVars, cleanVars, installVars, setupVars, volVars,
                   cfgVars, cvVars, swVars, iaVars>>

\* the bound function up to its call of the manager: the confirmation where
\* it has one (declined, the function returns and the process exits 0), then
\* the call
Handler ==
    /\ cpc = "handler"
    /\ \E answer \in {"yes", "no"} :
          LET asks == AsksConfirmation(handler, command)
          IN  /\ confirm_asked' = asks
              /\ confirm_answer' = (IF asks THEN answer ELSE "none")
              /\ asks \/ answer = "yes"
              /\ IF asks /\ answer = "no"
                 THEN /\ cpc' = "exited"
                      /\ cli_exit' = 0
                      /\ UNCHANGED volVars
                 ELSE /\ cpc' = "wait"
                      /\ v_args' = ManagerCall(command)
                      /\ vop' = v_args'.op
                      /\ vpc' = v_args'.op
                      /\ v_before' = [vol_data |-> vol_data, host_files |-> host_files,
                                      host_dirs |-> host_dirs]
                      /\ UNCHANGED <<phase, docker_available, vol_data, host_files,
                                     host_dirs, proc_log, backup_file, b_status,
                                     volume_name, is_compressed, tar_command, r_status,
                                     r_name, v_result, snap, unlink_attempted, cli_exit>>
    /\ UNCHANGED <<command, handler, returned>>
    /\ UNCHANGED <<startVars, statusVars, cleanVars, installVars, setupVars, cfgVars>>
    /\ UNCHANGED <<cvVars, swVars, iaVars>>

\* the manager call has returned: the function returns (exit code 0) or
\* raises typer.Exit(1); an exception out of the manager ends the process
\* with code 1 as well
CommandExit ==
    /\ cpc = "wait"
    /\ vpc = "done"
    /\ returned' = v_result
    /\ cli_exit' = (IF v_result \in {"True", "SUCCESS"} THEN 0 ELSE 1)
    /\ cpc' = "exited"
    /\ UNCHANGED <<command, handler, confirm_asked, confirm_answer>>
    /\ UNCHANGED <<startVars, statusVars, cleanVars, installVars, setupVars, volVars,
                   cfgVars, cvVars, swVars, iaVars>>

volume_app ==
    \/ Invoke
    \/ Handler
    \/ CommandExit
    \/ BackupPreflight
    \/ BackupMkdir
    \/ BackupTar
    \/ BackupMetadata
    \/ RestorePreflight
    \/ RestoreCreate
    \/ RestoreExtract
    \/ MigrateMkdir
    \/ MigrateAfterBackup
    \/ MigrateAfterRestore
    \/ DeleteVolume

SpecVolumeCli == InitVolume /\ [][volume_app]_vars

\* a volume that existed was deleted, or what a volume held was replaced
Destroyed ==
    \E n \in DOMAIN v_before.vol_data :
        /\ v_before.vol_data[n] # {}
        /\ \/ n \notin DOMAIN vol_data
           \/ vol_data[n] # v_before.vol_data[n]

\* C16: through the command line a volume is deleted, or its contents are
\* overwritten by a restore or a migrate, only after the operator confirmed
\* or passed a force flag.
C16_ConfirmedDestruction ==
    (cpc \in {"wait", "exited"} /\ Destroyed) =>
        (confirm_answer = "yes" \/ command.force)

(***************************************************************************)
(* sapo install --mode docker (cli/cli.py:45-232) through                  *)
(* install_docker_sync (docker/__init__.py:357-422).                       *)
(***************************************************************************)
\* cli.py:207-232: start is forced to True, then install_docker_sync is
\* called with the options
InstallCommand ==
    /\ cpc = "install"
    /\ start' = TRUE
    /\ ipc' = "confirm"
    /\ cpc' = "wait"
    /\ UNCHANGED <<command, handler, confirm_asked, confirm_answer, returned, cli_exit>>
    /\ UNCHANGED <<non_interactive, named_requested, use_named_volumes, volumes,
                   cleanup_i, set_raised, rt_volumes, created_log, all_success, exit_code>>
    /\ UNCHANGED <<startVars, statusVars, cleanVars, setupVars, volVars, cfgVars>>
    /\ UNCHANGED <<cvVars, swVars, iaVars>>

\* docker/__init__.py:393-422: asyncio.run(install_docker(...)) gives None
\* when the routine returns; typer.Exit, a RuntimeError, is caught by the
\* except Exception of line 409 like every other exception and becomes
\* OperationStatus.ERROR
InstallDockerSync ==
    /\ cpc = "wait"
    /\ ipc = "done"
    /\ returned' = (IF exit_code = 0 THEN "None" ELSE "ERROR")
    /\ cpc' = "returned"
    /\ UNCHANGED <<command, handler, confirm_asked, confirm_answer, cli_exit>>
    /\ UNCHANGED <<startVars, statusVars, cleanVars, installVars, setupVars, volVars,
                   cfgVars, cvVars, swVars, iaVars>>

\* cli.py:207-232: the command does not look at what install_docker_sync
\* returned; the function returns and the process exits with code 0
InstallReturn ==
    /\ cpc = "returned"
    /\ cli_exit' = 0
    /\ cpc' = "exited"
    /\ UNCHANGED <<command, handler, confirm_asked, confirm_answer, returned>>
    /\ UNCHANGED <<startVars, statusVars, cleanVars, installVars, setupVars, volVars,
                   cfgVars, cvVars, swVars, iaVars>>

install ==
    \/ InstallCommand
    \/ install_docker
    \/ InstallDockerSync
    \/ InstallReturn

\* sapo install --mode docker with any of --yes, --start / --no-start and
\* --use-named-volumes, on a host with or without an earlier installation
InitInstallCommand ==
    /\ pc = "idle"
    /\ InitStartVars
    /\ InitVolVars
    /\ InitCfgVars
    /\ InitCvVars
    /\ InitSwVars
    /\ InitIaVars
    /\ InitStatusVars
    /\ rt \in {{}, KnownObjects}
    /\ compose_file \in BOOLEAN
    /\ clean_in = NoCleanCall
    /\ clean_before = [rt |-> rt, compose_file |-> compose_file]
    /\ clean_results = <<>>
    /\ ipc = "idle"
    /\ non_interactive \in BOOLEAN
    /\ start \in BOOLEAN
    /\ named_requested \in BOOLEAN
    /\ use_named_volumes = named_requested
    /\ volumes = <<>>
    /\ cleanup_i = 0
    /\ set_raised = FALSE
    /\ rt_volumes = {}
    /\ created_log = <<>>
    /\ all_success = FALSE
    /\ exit_code = "none"
    /\ InitSetupVars
    /\ cpc = "install"
    /\ command = NoCommand
    /\ handler = "install"
    /\ confirm_asked = FALSE
    /\ confirm_answer = "none"
    /\ returned = "none"
    /\ cli_exit = "none"

SpecInstallCommand == InitInstallCommand /\ [][install]_vars

\* C17: sapo install in container mode exits non-zero whenever the
\* installation failed (an exception, an ERROR status from the install
\* routine, containers that did not start) and exits 0 only when it succeeded.
C17_InstallExitCode ==
    (cpc = "exited") =>
        ((cli_exit = 0) <=> (returned # "ERROR" /\ result = "true"))

(***************************************************************************)
(* DockerConfig credentials (docker/config.py), the module-level password  *)
(* function (docker/__init__.py) and DockerFileManager.generate_all_files  *)
(* (docker/files.py).  The program has one flow of control: each call runs *)
(* to its return before the next one begins.                               *)
(*                                                                         *)
(* passwords[c] is the _passwords dict of configuration c ("absent" for a  *)
(* key that is not in it), joinkey[c] its joinkey field ("None" for None), *)
(* password_cache the module-level _password_cache.  supplied,             *)
(* first_password, first_joinkey and last_call record what the caller      *)
(* passed and what the calls returned.                                     *)
(***************************************************************************)
\* the DockerConfig instances alive in the process
Configs == {"c1", "c2"}

\* the identifiers passwords are asked for
Keys == {"postgres", "admin"}

\* outcomes of the random password construction
PasswordValues == {"p1", "p2"}

\* outcomes of secrets.token_hex(16)
JoinkeyTokens == {"k1", "k2"}

\* joinkey arguments of the constructor: omitted, the empty string, a string
\* that is not 32 hex digits, a string of 32 hex digits
JoinkeyArguments == {"None", "", "custom", "k1"}

\* `if key not in cache: cache[key] = <random>`, then `return cache[key]`
Remember(cache, key, v) ==
    IF cache[key] = "absent" THEN [cache EXCEPT ![key] = v] ELSE cache

\* the random values a call can draw: one suffices when none is drawn
Draws(values, needed) ==
    IF needed THEN values ELSE {CHOOSE v \in values : TRUE}

\* `if not self.joinkey: self.joinkey = secrets.token_hex(16)`
JoinkeyAfter(jk, v) ==
    IF jk \in {"None", ""} THEN v ELSE jk

\* the first value seen for a key, kept for comparison with later calls
FirstSeen(seen, key, v) ==
    IF seen[key] = "absent" THEN [seen EXCEPT ![key] = v] ELSE seen

\* a slip: _passwords as one dict of the class, shared by every instance
DockerConfig_generate_password_Shared(c, key) ==
    /\ fpc = "idle"
    /\ \E v \in Draws(PasswordValues, passwords[c][key] = "absent") :
          /\ passwords' = [d \in Configs |-> Remember(passwords[c], key, v)]
          /\ first_password' =
                [first_password EXCEPT
                    ![c] = FirstSeen(first_password[c], key, passwords'[c][key])]
          /\ last_call' = [fn |-> "DockerConfig.generate_password", config |-> c,
                           key |-> key, value |-> passwords'[c][key],
                           cached |-> passwords[c][key] # "absent"]
    /\ UNCHANGED <<joinkey, password_cache, supplied, first_joinkey, fpc, rendered>>
    /\ UNCHANGED <<startVars, statusVars, cleanVars, installVars, setupVars, volVars,
                   cliVars, cvVars, swVars, iaVars>>

\* DockerConfig.generate_password(key) on configuration c
DockerConfig_generate_password(c, key) ==
    /\ fpc = "idle"
    /\ \E v \in Draws(PasswordValues, passwords[c][key] = "absent") :
          /\ passwords' = [passwords EXCEPT ![c] = Remember(passwords[c], key, v)]
          /\ first_password' =
                [first_password EXCEPT
                    ![c] = FirstSeen(first_password[c], key, passwords'[c][key])]
          /\ last_call' = [fn |-> "DockerConfig.generate_password", config |-> c,
                           key |-> key, value |-> passwords'[c][key],
                           cached |-> passwords[c][key] # "absent"]
    /\ UNCHANGED <<joinkey, password_cache, supplied, first_joinkey, fpc, rendered>>
    /\ UNCHANGED <<startVars, statusVars, cleanVars, installVars, setupVars, volVars,
                   cliVars, cvVars, swVars, iaVars>>

\* DockerConfig.get_password(key) on configuration c: the stored value, or
\* generate_password(key) when there is none
DockerConfig_get_password(c, key) ==
    /\ fpc = "idle"
    /\ \E v \in Draws(PasswordValues, passwords[c][key] = "absent") :
          /\ passwords' =
                IF passwords[c][key] = "absent"
                THEN [passwords EXCEPT ![c] = Remember(passwords[c], key, v)]
                ELSE passwords
          /\ first_password' =
                [first_password EXCEPT
                    ![c] = FirstSeen(first_password[c], key, passwords'[c][key])]
          /\ last_call' = [fn |-> "DockerConfig.get_password", config |-> c,
                           key |-> key, value |-> passwords'[c][key],
                           cached |-> passwords[c][key] # "absent"]
    /\ UNCHANGED <<joinkey, password_cache, supplied, first_joinkey, fpc, rendered>>
    /\ UNCHANGED <<startVars, statusVars, cleanVars, installVars, setupVars, volVars,
                   cliVars, cvVars, swVars, iaVars>>

\* DockerConfig.generate_joinkey() on configuration c
DockerConfig_generate_joinkey(c) ==
    /\ fpc = "idle"
    /\ \E v \in Draws(JoinkeyTokens, joinkey[c] \in {"None", ""}) :
          /\ joinkey' = [joinkey EXCEPT ![c] = JoinkeyAfter(joinkey[c], v)]
          /\ first_joinkey' =
                IF first_joinkey[c] = "None"
                THEN [first_joinkey EXCEPT ![c] = joinkey'[c]]
                ELSE first_joinkey
          /\ last_call' = [fn |-> "DockerConfig.generate_joinkey", config |-> c,
                           key |-> "none", value |-> joinkey'[c],
                           cached |-> joinkey[c] # "None"]
    /\ UNCHANGED <<passwords, password_cache, supplied, first_password, fpc, rendered>>
    /\ UNCHANGED <<startVars, statusVars, cleanVars, installVars, setupVars, volVars,
                   cliVars, cvVars, swVars, iaVars>>

\* the module-level generate_password(key): it takes no configuration and
\* keeps its values in the process-wide _password_cache
generate_password(key) ==
    /\ fpc = "idle"
    /\ \E v \in Draws(PasswordValues, password_cache[key] = "absent") :
          /\ password_cache' = Remember(password_cache, key, v)
          /\ last_call' = [fn |-> "generate_password", config |-> "none",
                           key |-> key, value |-> password_cache'[key],
                           cached |-> password_cache[key] # "absent"]
    /\ UNCHANGED <<passwords, joinkey, supplied, first_password, first_joinkey, fpc,
                   rendered>>
    /\ UNCHANGED <<startVars, statusVars, cleanVars, installVars, setupVars, volVars,
                   cliVars, cvVars, swVars, iaVars>>

\* no file of the run has been rendered; written tells whether safe_write_file
\* put the rendered text on disk
NoFiles ==
    [f \in {"env", "compose", "system"} |->
        [config |-> "none", password |-> "absent", joinkey |-> "None",
         written |-> FALSE]]

\* DockerFileManager.generate_all_files on a manager built over configuration
\* c, once the caller has made its own calls: create_directories, then the
\* three files in order
generate_all_files(c) ==
    /\ fpc = "idle"
    /\ fpc' = "env"
    /\ rendered' = NoFiles
    /\ last_call' = [fn |-> "generate_all_files", config |-> c, key |-> "none",
                     value |-> "none", cached |-> FALSE]
    /\ UNCHANGED <<passwords, joinkey, password_cache, supplied, first_password,
                   first_joinkey>>
    /\ UNCHANGED <<startVars, statusVars, cleanVars, installVars, setupVars, volVars,
                   cliVars, cvVars, swVars, iaVars>>

\* _generate_env_file: the context takes generate_password("postgres") and
\* generate_joinkey()
generate_env_file ==
    /\ fpc = "env"
    /\ LET c == last_call.config IN
       \E v \in PasswordValues, k \in JoinkeyTokens, w \in BOOLEAN :
          /\ passwords' = [passwords EXCEPT ![c] = Remember(passwords[c], "postgres", v)]
          /\ joinkey' = [joinkey EXCEPT ![c] = JoinkeyAfter(joinkey[c], k)]
          /\ first_password' =
                [first_password EXCEPT
                    ![c] = FirstSeen(first_password[c], "postgres",
                                     passwords'[c]["postgres"])]
          /\ first_joinkey' =
                IF first_joinkey[c] = "None"
                THEN [first_joinkey EXCEPT ![c] = joinkey'[c]]
                ELSE first_joinkey
          /\ rendered' = [rendered EXCEPT
                             !["env"] = [config |-> c,
                                         password |-> passwords'[c]["postgres"],
                                         joinkey |-> joinkey'[c],
                                         written |-> w]]
    /\ fpc' = "compose"
    /\ UNCHANGED <<password_cache, supplied, last_call>>
    /\ UNCHANGED <<startVars, statusVars, cleanVars, installVars, setupVars, volVars,
                   cliVars, cvVars, swVars, iaVars>>

\* a slip: the manifest takes its password from the module-level
\* generate_password and not from the configuration
generate_docker_compose_ModulePassword ==
    /\ fpc = "compose"
    /\ LET c == last_call.config IN
       \E v \in PasswordValues, w \in BOOLEAN :
          /\ password_cache' = Remember(password_cache, "postgres", v)
          /\ rendered' = [rendered EXCEPT
                             !["compose"] = [config |-> c,
                                             password |-> password_cache'["postgres"],
                                             joinkey |-> joinkey[c],
                                             written |-> w]]
    /\ fpc' = "system"
    /\ UNCHANGED <<passwords, joinkey, supplied, first_password, first_joinkey,
                   last_call>>
    /\ UNCHANGED <<startVars, statusVars, cleanVars, installVars, setupVars, volVars,
                   cliVars, cvVars, swVars, iaVars>>

\* _generate_docker_compose: the context takes get_password("postgres") and
\* reads the joinkey field
generate_docker_compose ==
    /\ fpc = "compose"
    /\ LET c == last_call.config IN
       \E v \in PasswordValues, w \in BOOLEAN :
          /\ passwords' = [passwords EXCEPT ![c] = Remember(passwords[c], "postgres", v)]
          /\ first_password' =
                [first_password EXCEPT
                    ![c] = FirstSeen(first_password[c], "postgres",
                                     passwords'[c]["postgres"])]
          /\ rendered' = [rendered EXCEPT
                             !["compose"] = [config |-> c,
                                             password |-> passwords'[c]["postgres"],
                                             joinkey |-> joinkey[c],
                                             written |-> w]]
    /\ fpc' = "system"
    /\ UNCHANGED <<joinkey, password_cache, supplied, first_joinkey, last_call>>
    /\ UNCHANGED <<startVars, statusVars, cleanVars, installVars, setupVars, volVars,
                   cliVars, cvVars, swVars, iaVars>>

\* _generate_system_yaml: the context takes get_password("postgres") and
\* generate_joinkey()
generate_system_yaml ==
    /\ fpc = "system"
    /\ LET c == last_call.config IN
       \E v \in PasswordValues, k \in JoinkeyTokens, w \in BOOLEAN :
          /\ passwords' = [passwords EXCEPT ![c] = Remember(passwords[c], "postgres", v)]
          /\ joinkey' = [joinkey EXCEPT ![c] = JoinkeyAfter(joinkey[c], k)]
          /\ first_password' =
                [first_password EXCEPT
                    ![c] = FirstSeen(first_password[c], "postgres",
                                     passwords'[c]["postgres"])]
          /\ first_joinkey' =
                IF first_joinkey[c] = "None"
                THEN [first_joinkey EXCEPT ![c] = joinkey'[c]]
                ELSE first_joinkey
          /\ rendered' = [rendered EXCEPT
                             !["system"] = [config |-> c,
                                            password |-> passwords'[c]["postgres"],
                                            joinkey |-> joinkey'[c],
                                            written |-> w]]
    /\ fpc' = "done"
    /\ UNCHANGED <<password_cache, supplied, last_call>>
    /\ UNCHANGED <<startVars, statusVars, cleanVars, installVars, setupVars, volVars,
                   cliVars, cvVars, swVars, iaVars>>

\* any sequence of credential calls and file generations in one process
Credentials ==
    \/ \E c \in Configs, key \in Keys : DockerConfig_generate_password(c, key)
    \/ \E c \in Configs, key \in Keys : DockerConfig_get_password(c, key)
    \/ \E c \in Configs : DockerConfig_generate_joinkey(c)
    \/ generate_password("postgres")
    \/ \E c \in Configs : generate_all_files(c)
    \/ generate_env_file
    \/ generate_docker_compose
    \/ generate_system_yaml

\* the configurations have been constructed, each with or without a join key;
\* no password has been asked for
InitCredentials ==
    /\ pc = "idle"
    /\ InitStartVars
    /\ InitStatusVars
    /\ InitCleanVars
    /\ InitInstallVars
    /\ InitSetupVars
    /\ InitVolVars
    /\ InitCliVars
    /\ InitCvVars
    /\ InitSwVars
    /\ InitIaVars
    /\ supplied \in [Configs -> JoinkeyArguments]
    /\ joinkey = supplied
    /\ passwords = [c \in Configs |-> [k \in Keys |-> "absent"]]
    /\ password_cache = [k \in {"postgres"} |-> "absent"]
    /\ first_password = [c \in Configs |-> [k \in Keys |-> "absent"]]
    /\ first_joinkey = supplied
    /\ last_call = [fn |-> "none"]
    /\ fpc = "idle"
    /\ rendered = NoFiles

SpecCredentials == InitCredentials /\ [][Credentials]_vars

(***************************************************************************)
(* Claims about the credentials.                                           *)
(***************************************************************************)
\* every call of a DockerConfig password method returned the value its first
\* call for that configuration and key returned, and the stored value is still
\* that one
PasswordsFixed ==
    /\ (last_call.fn \in {"DockerConfig.generate_password", "DockerConfig.get_password"})
          => (last_call.value = first_password[last_call.config][last_call.key])
    /\ \A c \in Configs, k \in Keys :
          (first_password[c][k] # "absent") => (passwords[c][k] = first_password[c][k])

\* a step changes the _passwords dict of a configuration only if it is a call
\* on that configuration or a file generation over it
CacheIsolated ==
    \A c \in Configs :
        (passwords'[c] # passwords[c]) =>
            \/ /\ last_call' # last_call
               /\ last_call'.fn \in {"DockerConfig.generate_password",
                                     "DockerConfig.get_password"}
               /\ last_call'.config = c
            \/ /\ fpc \in {"env", "compose", "system"}
               /\ last_call.config = c

\* C18: in any interleaving of password generation and lookup calls on any
\* number of configurations, the value returned for a configuration and key is
\* fixed by the first call for that pair and returned by every later call, and
\* a call made for one configuration never touches the cache of another.
C18_PerInstanceCache == [](PasswordsFixed) /\ [][CacheIsolated]_vars

\* both configurations hold a postgres password, the two differ, the
\* process-wide cache holds one too, and the last call was a lookup that found
\* its value stored
C18_Witness ==
    /\ last_call.fn = "DockerConfig.get_password"
    /\ last_call.cached
    /\ last_call.key = "postgres"
    /\ passwords["c1"]["postgres"] # "absent"
    /\ passwords["c2"]["postgres"] # "absent"
    /\ passwords["c1"]["postgres"] # passwords["c2"]["postgres"]
    /\ password_cache["postgres"] # "absent"

\* C19: once the join key of a configuration is set, supplied at construction
\* (whatever its value) or generated by the first generate_joinkey call, every
\* generate_joinkey call returns exactly that value; a supplied value is
\* returned unmodified and never regenerated.
C19_JoinkeyImmutable ==
    (last_call.fn = "DockerConfig.generate_joinkey") =>
        /\ last_call.value = first_joinkey[last_call.config]
        /\ (supplied[last_call.config] # "None")
              => (last_call.value = supplied[last_call.config])

\* the same with the empty string counted as no join key supplied
C19_JoinkeyImmutable_NonEmpty ==
    (/\ last_call.fn = "DockerConfig.generate_joinkey"
     /\ supplied[last_call.config] # "")
        => /\ last_call.value = first_joinkey[last_call.config]
           /\ (supplied[last_call.config] # "None")
                 => (last_call.value = supplied[last_call.config])

\* C20: within one generate_all_files run on one configuration, the join key
\* and the database password rendered into the environment file, the compose
\* manifest and the system-configuration file are the same values in all the
\* files rendered so far.
C20_SameSecrets ==
    \A f \in DOMAIN rendered, g \in DOMAIN rendered :
        (rendered[f].config # "none" /\ rendered[g].config # "none")
            => /\ rendered[f].password = rendered[g].password
               /\ rendered[f].joinkey = rendered[g].joinkey
               /\ rendered[f].config = rendered[g].config

\* a run has rendered and written the three files, for a configuration that
\* was built without a join key
C20_Witness ==
    /\ fpc = "done"
    /\ \A f \in DOMAIN rendered :
          /\ rendered[f].written
          /\ rendered[f].config = last_call.config
          /\ rendered[f].password \in PasswordValues
          /\ rendered[f].joinkey \in JoinkeyTokens
    /\ supplied[last_call.config] = "None"

(***************************************************************************)
(* VolumeManager.create_volume and create_volume_set (docker/volume.py,    *)
(* lines 131-225 and 582-704): the volume name, the docker volume create   *)
(* command and what the runtime keeps of it.  Two installs run on one      *)
(* host, each with its own VolumeManager; a call runs to its return.       *)
(*                                                                         *)
(* A dict is a function from its keys; None and the empty dict are both    *)
(* the empty function, None of a string argument is "None", a path is the  *)
(* sequence of its parts and None of a path is the empty sequence.         *)
(***************************************************************************)
\* the clock does not advance past this tick
MaxNow == 2

\* create_volume / create_volume_set calls made in one behaviour
MaxCreateCalls == 2

\* the clock ticks twice a second
TicksPerSecond == 2

\* the installs on the host, one VolumeManager each
Managers == {"m1", "m2"}

\* volume_prefix of a manager: the default of the constructor
volume_prefix(m) == "artifactory"

\* datetime.now().strftime("%Y%m%d%H%M%S"): the clock cut to whole seconds
strftime(t) == <<"0", "1", "2", "3", "4">>[(t \div TicksPerSecond) + 1]

\* f"{self.volume_prefix}_{volume_type.value}_{name_suffix}", kept as its parts
FormatVolumeName(prefix, volume_type, name_suffix) == <<prefix, volume_type, name_suffix>>

\* `if not x` for a string argument
Falsy(x) == x \in {"None", ""}

\* the empty dict
NoDict == [k \in {} |-> ""]

\* d.update(e)
Update(d, e) ==
    [k \in DOMAIN d \cup DOMAIN e |-> IF k \in DOMAIN e THEN e[k] ELSE d[k]]

\* _get_purpose_for_type
get_purpose_for_type(volume_type) ==
    CASE volume_type = "data" -> "Artifactory data storage"
      [] volume_type = "logs" -> "Artifactory logs"
      [] volume_type = "backup" -> "Artifactory backup storage"
      [] volume_type = "postgresql" -> "PostgreSQL database storage"
      [] volume_type = "etc" -> "Artifactory configuration"
      [] volume_type = "all" -> "All Artifactory data"
      [] OTHER -> "Unknown purpose"

\* Path.absolute(): a path that does not start at the root is put under the
\* working directory
absolute(p) == IF p # <<>> /\ p[1] = "/" THEN p ELSE <<"/", "cwd">> \o p

\* self.default_labels, set by the constructor
default_labels ==
    ("com.jfrog.artifactory.managed-by" :> "sapo")
        @@ ("com.jfrog.artifactory.created-at" :> "iso")

\* lines 158-217: the command create_volume builds from its arguments at
\* clock t.  drivers are the --driver flags in order, opts the --opt flags,
\* labels the --label flags
CreateCommand(m, a, t) ==
    LET name_suffix == IF Falsy(a.name_suffix) THEN strftime(t) ELSE a.name_suffix
        given == a.host_path # <<>>
        bind == ("type" :> <<"none">>) @@ ("o" :> <<"bind">>)
                    @@ ("device" :> absolute(a.host_path))
        typed == Update(default_labels,
                        ("com.jfrog.artifactory.volume-type" :> a.volume_type)
                            @@ ("com.jfrog.artifactory.purpose"
                                    :> get_purpose_for_type(a.volume_type)))
        named == IF Falsy(a.display_name)
                 THEN typed
                 ELSE Update(typed,
                             "com.jfrog.artifactory.display-name" :> a.display_name)
    IN  [name |-> FormatVolumeName(volume_prefix(m), a.volume_type, name_suffix),
         drivers |-> (IF Falsy(a.driver) THEN <<>> ELSE <<a.driver>>)
                        \o (IF given /\ Falsy(a.driver) THEN <<"local">> ELSE <<>>),
         opts |-> IF given THEN Update(a.driver_opts, bind) ELSE a.driver_opts,
         labels |-> Update(named, a.labels),
         warned |-> given /\ ~Falsy(a.driver) /\ a.driver # "local"]

\* the driver docker uses for a command: the last --driver flag, local
\* without one
DriverOf(cmd) ==
    IF cmd.drivers = <<>> THEN "local" ELSE cmd.drivers[Len(cmd.drivers)]

\* docker volume create can succeed: the name is free, or it names a volume
\* of the same driver
Creatable(vols, cmd) ==
    (cmd.name \in DOMAIN vols) => (vols[cmd.name].driver = DriverOf(cmd))

\* the runtime after a successful docker volume create: a volume that exists
\* is reused as it is
VolumeCreated(vols, cmd) ==
    IF cmd.name \in DOMAIN vols
    THEN vols
    ELSE vols @@ (cmd.name :> [driver |-> DriverOf(cmd), opts |-> cmd.opts,
                               labels |-> cmd.labels])

\* the arguments callers pass to create_volume: the type, the suffix and the
\* labels vary with the driver left alone, the driver, its options and the
\* host path vary on one type and suffix
CreateArguments ==
    {a \in [volume_type : {"data", "logs"},
            name_suffix : {"None", "", "s1"},
            driver : {"None", "local", "nfs"},
            driver_opts : {NoDict, "type" :> <<"nfs">>},
            labels : {NoDict, "team" :> "x",
                      "com.jfrog.artifactory.volume-type" :> "scratch"},
            host_path : {<<>>, <<"srv", "data">>},
            display_name : {"None"}] :
        \/ a.driver = "None" /\ a.driver_opts = NoDict /\ a.host_path = <<>>
        \/ a.volume_type = "data" /\ a.name_suffix = "s1" /\ a.labels = NoDict}

\* the clock advances
Tick ==
    /\ now < MaxNow
    /\ now' = now + 1
    /\ UNCHANGED <<docker_volumes, cv_calls, cv_last>>
    /\ UNCHANGED <<startVars, statusVars, cleanVars, installVars, setupVars, volVars,
                   cliVars, cfgVars, swVars, iaVars>>

\* create_volume, lines 131-225, called on manager m with arguments a:
\* RuntimeError without the runtime; os.makedirs of a host path can raise;
\* the exception of a failed docker volume create is raised again
create_volume(m, a) ==
    /\ Len(cv_calls) < MaxCreateCalls
    /\ LET cmd == CreateCommand(m, a, now) IN
       \E o \in {"unavailable", "oserror", "failed", "created"} :
          /\ (o = "oserror") => (a.host_path # <<>>)
          /\ (o = "created") => Creatable(docker_volumes, cmd)
          /\ docker_volumes' = IF o = "created"
                               THEN VolumeCreated(docker_volumes, cmd)
                               ELSE docker_volumes
          /\ cv_last' = [args |-> a, cmd |-> cmd,
                         ran |-> o \in {"failed", "created"},
                         outcome |-> IF o = "created" THEN "returned" ELSE "raised"]
          /\ cv_calls' = Append(cv_calls,
                                [manager |-> m, no_suffix |-> Falsy(a.name_suffix),
                                 names |-> IF o = "created"
                                           THEN {<<a.volume_type, cmd.name>>}
                                           ELSE {}])
    /\ UNCHANGED now
    /\ UNCHANGED <<startVars, statusVars, cleanVars, installVars, setupVars, volVars,
                   cliVars, cfgVars, swVars, iaVars>>

\* the volume types create_volume_set creates, in order
SetTypes == <<"data", "logs", "backup", "postgresql", "etc">>

\* lines 605-623 and 669-677: what create_volume_set passes to create_volume
\* for one type (no driver, no host paths, no version)
SetArguments(volume_type, name_suffix) ==
    [volume_type |-> volume_type, name_suffix |-> name_suffix, driver |-> "None",
     driver_opts |-> NoDict,
     labels |-> ("com.jfrog.artifactory.install-timestamp" :> "iso"),
     host_path |-> <<>>, display_name |-> "Artifactory"]

\* the runtime after the creations of cmds[1..n], in order
RECURSIVE CreatedInOrder(_, _, _)
CreatedInOrder(vols, cmds, n) ==
    IF n = 0 THEN vols
    ELSE VolumeCreated(CreatedInOrder(vols, cmds, n - 1), cmds[n])

\* create_volume_set, lines 582-704, called on manager m: the suffix is taken
\* once, the types are created in order; when the creation of the k-th fails
\* the ones created before are deleted by name (a failed delete is ignored)
\* and RuntimeError is raised
create_volume_set(m, name_suffix) ==
    /\ Len(cv_calls) < MaxCreateCalls
    /\ LET suffix == IF Falsy(name_suffix) THEN strftime(now) ELSE name_suffix
           cmds == [i \in 1..Len(SetTypes) |->
                       CreateCommand(m, SetArguments(SetTypes[i], suffix), now)]
       IN
       \E k \in 0..Len(SetTypes) :
          LET n == IF k = 0 THEN Len(SetTypes) ELSE k - 1
              made == CreatedInOrder(docker_volumes, cmds, n)
              mine == {cmds[i].name : i \in 1..n}
          IN
          /\ \A i \in 1..n : Creatable(CreatedInOrder(docker_volumes, cmds, i - 1), cmds[i])
          /\ IF k = 0
             THEN /\ docker_volumes' = made
                  /\ cv_calls' = Append(cv_calls,
                                        [manager |-> m, no_suffix |-> Falsy(name_suffix),
                                         names |-> {<<SetTypes[i], cmds[i].name>> :
                                                       i \in 1..n}])
             ELSE /\ \E left \in SUBSET mine :
                        docker_volumes' =
                            [v \in DOMAIN made \ (mine \ left) |-> made[v]]
                  /\ cv_calls' = Append(cv_calls,
                                        [manager |-> m, no_suffix |-> Falsy(name_suffix),
                                         names |-> {}])
    /\ UNCHANGED <<now, cv_last>>
    /\ UNCHANGED <<startVars, statusVars, cleanVars, installVars, setupVars, volVars,
                   cliVars, cfgVars, swVars, iaVars>>

\* the installs create volumes while the clock runs
CreateVolumes ==
    \/ Tick
    \/ \E m \in Managers, a \in CreateArguments : create_volume(m, a)
    \/ \E m \in Managers, s \in {"None", "s1"} : create_volume_set(m, s)

\* no volume exists
InitCreateVolumes ==
    /\ pc = "idle"
    /\ InitStartVars
    /\ InitStatusVars
    /\ InitCleanVars
    /\ InitInstallVars
    /\ InitSetupVars
    /\ InitVolVars
    /\ InitCliVars
    /\ InitCfgVars
    /\ InitCvVars
    /\ InitSwVars
    /\ InitIaVars

SpecCreateVolumes == InitCreateVolumes /\ [][CreateVolumes]_vars

(***************************************************************************)
(* Claims about create_volume and create_volume_set.                       *)
(***************************************************************************)
\* C21: two volume creations issued without a suffix by different installs,
\* with the same prefix and the same volume type, never yield the same
\* volume name.
C21_NoNameCollision ==
    \A i \in DOMAIN cv_calls, j \in DOMAIN cv_calls :
        (/\ i # j
         /\ cv_calls[i].manager # cv_calls[j].manager
         /\ cv_calls[i].no_suffix
         /\ cv_calls[j].no_suffix)
            => \A x \in cv_calls[i].names, y \in cv_calls[j].names :
                  (x[1] = y[1]) => (x[2] # y[2])

\* C22: after a successful create_volume, with or without caller-supplied
\* labels, the volume of the returned name carries a volume-type label equal
\* to the type and the purpose label of that type.
C22_TypeLabel ==
    (cv_last.outcome = "returned") =>
        LET v == docker_volumes[cv_last.cmd.name] IN
        /\ "com.jfrog.artifactory.volume-type" \in DOMAIN v.labels
        /\ v.labels["com.jfrog.artifactory.volume-type"] = cv_last.args.volume_type
        /\ "com.jfrog.artifactory.purpose" \in DOMAIN v.labels
        /\ v.labels["com.jfrog.artifactory.purpose"]
              = get_purpose_for_type(cv_last.args.volume_type)

\* C23: whenever create_volume is given a host path, the command it runs
\* creates the volume with driver local and the options type=none, o=bind,
\* device=<absolute host path>, whatever driver and options the caller asked
\* for.
C23_HostPathBind ==
    (/\ cv_last.outcome # "none"
     /\ cv_last.ran
     /\ cv_last.args.host_path # <<>>)
        => /\ DriverOf(cv_last.cmd) = "local"
           /\ {"type", "o", "device"} \subseteq DOMAIN cv_last.cmd.opts
           /\ cv_last.cmd.opts["type"] = <<"none">>
           /\ cv_last.cmd.opts["o"] = <<"bind">>
           /\ cv_last.cmd.opts["device"] = <<"/", "cwd">> \o cv_last.args.host_path

(***************************************************************************)
(* Claims about the failures of backup_volume and restore_volume.          *)
(***************************************************************************)
\* C24: backup_volume never raises: on any failure it returns ERROR with no
\* archive path, and it returns an archive path only together with SUCCESS.
C24_BackupNeverRaises ==
    (vop = "backup" /\ vpc = "done") =>
        /\ v_result \in {"SUCCESS", "ERROR"}
        /\ (v_result = "ERROR") => (backup_file = NoPath)
        /\ (backup_file # NoPath) => (b_status = "SUCCESS")

\* the same for the calls whose destination directory exists or can be made
C24_BackupNeverRaises_DirectoryMade ==
    (vop = "backup" /\ vpc = "done" /\ v_args.dir \in host_dirs) =>
        /\ v_result \in {"SUCCESS", "ERROR"}
        /\ (v_result = "ERROR") => (backup_file = NoPath)
        /\ (backup_file # NoPath) => (b_status = "SUCCESS")

\* C28: a restore_volume call that returns ERROR leaves the runtime as it was
\* before the call: no volume created by the call remains and an existing
\* target volume still holds what it held.
C28_FailedRestoreLeavesRuntime ==
    (vop = "restore" /\ vpc = "done" /\ r_status = "ERROR")
        => (vol_data = v_before.vol_data)

\* the same for the calls that return ERROR before the extraction container
\* is spawned and without having created a volume
C28_FailedRestoreLeavesRuntime_Early ==
    (/\ vop = "restore" /\ vpc = "done" /\ r_status = "ERROR"
     /\ \A k \in 1..Len(proc_log) : proc_log[k] # "docker run tar x")
        => (vol_data = v_before.vol_data)

(***************************************************************************)
(* safe_write_file (install_mode/common/file_utils.py, lines 35-111) on    *)
(* one path.  path_content is the set of entries of a directory, and for a *)
(* file the set holding its text (empty for a file cut to nothing).        *)
(***************************************************************************)
\* calls of safe_write_file in one behaviour
MaxWriteCalls == 2

\* the texts callers write
Texts == {"t1", "t2"}

\* what the path can be when a call finds it
PathStates ==
    {[kind |-> "absent", content |-> {}]}
        \cup {[kind |-> "file", content |-> {t}] : t \in Texts}
        \cup {[kind |-> "dir", content |-> c] : c \in SUBSET {"a", "b"}}

\* a slip: the non-interactive case of a directory is not told apart, the
\* prompt decides
Conflict_Prompted(kind, non_interactive_, answer, rm_ok) ==
    CASE kind = "dir" ->
            IF answer = "abort" THEN "raised"
            ELSE IF answer = "no" THEN "SKIPPED"
            ELSE IF rm_ok THEN "removed" ELSE "ERROR"
      [] kind = "file" ->
            IF non_interactive_ THEN "write"
            ELSE IF answer = "abort" THEN "raised"
            ELSE IF answer = "no" THEN "SKIPPED"
            ELSE "write"
      [] OTHER -> "write"

\* lines 49-96: what the call decides before it writes.  A directory is an
\* ERROR when non-interactive, else typer.confirm decides: removed (or ERROR
\* when shutil.rmtree fails) or SKIPPED; a file is overwritten when
\* non-interactive, else typer.confirm decides.  typer.confirm raises Abort
\* when the operator interrupts it
Conflict(kind, non_interactive_, answer, rm_ok) ==
    CASE kind = "dir" ->
            IF non_interactive_ THEN "ERROR"
            ELSE IF answer = "abort" THEN "raised"
            ELSE IF answer = "no" THEN "SKIPPED"
            ELSE IF rm_ok THEN "removed" ELSE "ERROR"
      [] kind = "file" ->
            IF non_interactive_ THEN "write"
            ELSE IF answer = "abort" THEN "raised"
            ELSE IF answer = "no" THEN "SKIPPED"
            ELSE "write"
      [] OTHER -> "write"

\* one call safe_write_file(path, text, non_interactive_).  After the
\* decision: path.parent.mkdir (line 99, outside the try: its OSError leaves
\* the call) and path.write_text, whose exception gives ERROR.  A failed
\* rmtree may have removed part of the directory, a failed write may have cut
\* the file
safe_write_file(text, non_interactive_) ==
    /\ sw_calls < MaxWriteCalls
    /\ sw_calls' = sw_calls + 1
    /\ \E answer \in {"yes", "no", "abort"}, rm_ok \in BOOLEAN, write_ok \in BOOLEAN,
          rest \in SUBSET path_content :
          LET d == Conflict(path_kind, non_interactive_, answer, rm_ok)
              mkdir_raises == d \in {"write", "removed"} /\ ~parent_ok
              status_ ==
                  CASE d \in {"ERROR", "SKIPPED", "raised"} -> d
                    [] mkdir_raises -> "raised"
                    [] write_ok -> "SUCCESS"
                    [] OTHER -> "ERROR"
              after ==
                  CASE d \in {"SKIPPED", "raised"} ->
                          [kind |-> path_kind, content |-> path_content]
                    [] d = "ERROR" ->
                          IF path_kind = "dir" /\ ~non_interactive_
                          THEN [kind |-> "dir", content |-> rest]
                          ELSE [kind |-> path_kind, content |-> path_content]
                    [] mkdir_raises -> [kind |-> "absent", content |-> {}]
                    [] write_ok -> [kind |-> "file", content |-> {text}]
                    [] OTHER ->
                          IF d = "removed" \/ path_kind = "absent"
                          THEN [kind |-> "absent", content |-> {}]
                          ELSE [kind |-> "file", content |-> rest]
          IN  /\ path_kind' = after.kind
              /\ path_content' = after.content
              /\ parent_ok' = (parent_ok \/ status_ = "SUCCESS")
              /\ sw_call' = [text |-> text, non_interactive |-> non_interactive_,
                             found |-> [kind |-> path_kind, content |-> path_content],
                             asked |-> ~non_interactive_ /\ path_kind # "absent",
                             status |-> status_]
    /\ UNCHANGED <<startVars, statusVars, cleanVars, installVars, setupVars, volVars,
                   cliVars, cfgVars, cvVars, iaVars>>

\* the calls made on the path
SafeWrites ==
    \E text \in Texts, n \in BOOLEAN : safe_write_file(text, n)

\* the path is anything; a path that exists has its parent
InitSafeWrites ==
    /\ pc = "idle"
    /\ InitStartVars
    /\ InitStatusVars
    /\ InitCleanVars
    /\ InitInstallVars
    /\ InitSetupVars
    /\ InitVolVars
    /\ InitCliVars
    /\ InitCfgVars
    /\ InitCvVars
    /\ InitIaVars
    /\ \E s \in PathStates :
          /\ path_kind = s.kind
          /\ path_content = s.content
    /\ parent_ok \in BOOLEAN
    /\ (path_kind # "absent") => parent_ok
    /\ sw_call = [status |-> "none"]
    /\ sw_calls = 0

SpecSafeWrites == InitSafeWrites /\ [][SafeWrites]_vars

(***************************************************************************)
(* Claims about safe_write_file.                                           *)
(***************************************************************************)
\* C25: safe_write_file called non-interactively on a path that is a
\* directory returns a failure status, leaves the directory and its contents
\* as they were, and raises nothing.
C25_DirectoryConflict ==
    (/\ sw_call.status # "none"
     /\ sw_call.non_interactive
     /\ sw_call.found.kind = "dir")
        => /\ sw_call.status = "ERROR"
           /\ path_kind = "dir"
           /\ path_content = sw_call.found.content

\* a non-interactive call found a directory with entries in it
C25_Witness ==
    /\ sw_call.status = "ERROR"
    /\ sw_call.non_interactive
    /\ sw_call.found.kind = "dir"
    /\ sw_call.found.content = {"a", "b"}
    /\ path_content = {"a", "b"}

(***************************************************************************)
(* install_artifactory (cli/artifactory.py, lines 116-180) with            *)
(* extract_archive (cli/archive/extractor.py) and the cleanup module       *)
(* (cli/cleanup/__init__.py).                                              *)
(***************************************************************************)
\* the truth value Python gives a tuple: a tuple that is not empty is true
Truthy(t) == t # <<>>

\* what extract_archive returns: (True, None) or (False, <message>)
ExtractResults == {<<TRUE, "None">>, <<FALSE, "message">>}

\* install_artifactory ends: it returns, typer.Exit leaves it with a code, or
\* another exception leaves it
EndInstall(how) ==
    /\ ia_pc' = "done"
    /\ ia_exit' = how

\* lines 132-149: the signal handlers, the configuration, the confirmation;
\* a refusal raises typer.Exit() and an interrupted prompt Abort
ConfirmInstall ==
    /\ ia_pc = "confirm"
    /\ \E answer \in {"yes", "no", "abort"} :
          CASE answer = "yes" -> ia_pc' = "download" /\ UNCHANGED ia_exit
            [] answer = "no" -> EndInstall("exit_0")
            [] answer = "abort" -> EndInstall("raised")
    /\ UNCHANGED <<keep_archive, verify_checksum, download_path, extract_path, temp_files,
                   extract_result, completed, unlinked>>
    /\ UNCHANGED <<startVars, statusVars, cleanVars, installVars, setupVars, volVars,
                   cliVars, cfgVars, cvVars, swVars>>

\* lines 151-158: download_file; on False typer.Exit(1), else the archive is
\* there and is registered for the cleanup of the signal handler
DownloadPackage ==
    /\ ia_pc = "download"
    /\ \E ok \in BOOLEAN :
          IF ok
          THEN /\ download_path' = "present"
               /\ temp_files' = temp_files \cup {"download_path"}
               /\ ia_pc' = IF verify_checksum THEN "verify" ELSE "extract"
               /\ UNCHANGED ia_exit
          ELSE /\ EndInstall("exit_1")
               /\ UNCHANGED <<download_path, temp_files>>
    /\ UNCHANGED <<keep_archive, verify_checksum, extract_path, extract_result, completed,
                   unlinked>>
    /\ UNCHANGED <<startVars, statusVars, cleanVars, installVars, setupVars, volVars,
                   cliVars, cfgVars, cvVars, swVars>>

\* lines 160-165: verify_checksum; on False typer.Exit(1)
VerifyChecksum ==
    /\ ia_pc = "verify"
    /\ \E ok \in BOOLEAN :
          IF ok
          THEN ia_pc' = "extract" /\ UNCHANGED ia_exit
          ELSE EndInstall("exit_1")
    /\ UNCHANGED <<keep_archive, verify_checksum, download_path, extract_path, temp_files,
                   extract_result, completed, unlinked>>
    /\ UNCHANGED <<startVars, statusVars, cleanVars, installVars, setupVars, volVars,
                   cliVars, cfgVars, cvVars, swVars>>

\* lines 167-171: extract_archive returns a pair and `if not <pair>` tests
\* the pair itself; a failed extraction may leave part of the tree
ExtractArchive ==
    /\ ia_pc = "extract"
    /\ \E r \in ExtractResults, left \in {"absent", "partial"} :
          /\ extract_result' = r
          /\ extract_path' = IF r[1] THEN "full"
                             ELSE IF extract_path = "absent" THEN left ELSE "partial"
          /\ IF ~Truthy(r)
             THEN EndInstall("exit_1")
             ELSE ia_pc' = "cleanup" /\ UNCHANGED ia_exit
    /\ UNCHANGED <<keep_archive, verify_checksum, download_path, temp_files, completed,
                   unlinked>>
    /\ UNCHANGED <<startVars, statusVars, cleanVars, installVars, setupVars, volVars,
                   cliVars, cfgVars, cvVars, swVars>>

\* lines 173-180: unless keep_archive the archive is unlinked (a failure is
\* only a warning), then the success message, and the function returns
CleanUpArchive ==
    /\ ia_pc = "cleanup"
    /\ \E ok \in BOOLEAN :
          IF ~keep_archive /\ ok
          THEN download_path' = "absent" /\ unlinked' = TRUE
          ELSE UNCHANGED <<download_path, unlinked>>
    /\ completed' = TRUE
    /\ EndInstall("returned")
    /\ UNCHANGED <<keep_archive, verify_checksum, extract_path, temp_files, extract_result>>
    /\ UNCHANGED <<startVars, statusVars, cleanVars, installVars, setupVars, volVars,
                   cliVars, cfgVars, cvVars, swVars>>

\* signal_handler of the cleanup module, on SIGINT or SIGTERM while the
\* install runs: cleanup() unlinks the registered files (an error is only a
\* warning) and sys.exit(1)
signal_handler ==
    /\ ia_pc \notin {"idle", "done"}
    /\ \E ok \in BOOLEAN :
          download_path' = IF ok /\ "download_path" \in temp_files
                           THEN "absent" ELSE download_path
    /\ EndInstall("exit_1")
    /\ UNCHANGED <<keep_archive, verify_checksum, extract_path, temp_files, extract_result,
                   completed, unlinked>>
    /\ UNCHANGED <<startVars, statusVars, cleanVars, installVars, setupVars, volVars,
                   cliVars, cfgVars, cvVars, swVars>>

\* one call of install_artifactory
install_artifactory ==
    \/ ConfirmInstall
    \/ DownloadPackage
    \/ VerifyChecksum
    \/ ExtractArchive
    \/ CleanUpArchive
    \/ signal_handler

\* the call begins; the destination may hold an earlier extraction
InitInstallArtifactory ==
    /\ pc = "idle"
    /\ InitStartVars
    /\ InitStatusVars
    /\ InitCleanVars
    /\ InitInstallVars
    /\ InitSetupVars
    /\ InitVolVars
    /\ InitCliVars
    /\ InitCfgVars
    /\ InitCvVars
    /\ InitSwVars
    /\ ia_pc = "confirm"
    /\ keep_archive \in BOOLEAN
    /\ verify_checksum \in BOOLEAN
    /\ download_path \in {"absent", "present"}
    /\ extract_path \in {"absent", "partial", "full"}
    /\ temp_files = {}
    /\ extract_result = <<>>
    /\ completed = FALSE
    /\ unlinked = FALSE
    /\ ia_exit = "none"

SpecInstallArtifactory == InitInstallArtifactory /\ [][install_artifactory]_vars

(***************************************************************************)
(* Claims about install_artifactory.                                       *)
(***************************************************************************)
\* C26: install_artifactory aborts with a failure exit whenever the archive
\* extraction fails: after a failed extraction it never reports that the
\* installation completed and never deletes the downloaded archive.
C26_ExtractFailureAborts ==
    (extract_result # <<>> /\ ~extract_result[1])
        => /\ ia_pc = "done"
           /\ ia_exit = "exit_1"
           /\ ~completed
           /\ ~unlinked

====
